---- MODULE Spec2Model ----
(***************************************************************************)
(* Model of the question-similarity pipeline of moodle-toolbox:            *)
(*   find_similar_questions.py      (file mode and directory mode)         *)
(*   evaluate_questions_directory.py (QuestionAnalyzer.find_duplicates)    *)
(*                                                                         *)
(* Texts are sequences of one-character strings.  Python floats are        *)
(* modelled as signed integers counting units of 1/Scale, rounded after    *)
(* every arithmetic operation to MantissaBits significant bits (round to   *)
(* nearest, ties to even), so that rounding error and the order of a       *)
(* summation are visible as they are with IEEE doubles.                    *)
(***************************************************************************)
EXTENDS Integers, Sequences, FiniteSets, TLC

(***************************************************************************)
(* Floating point                                                          *)
(***************************************************************************)
ScaleBits == 12
MantissaBits == 10
LogTerms == 14

Abs(n) == IF n < 0 THEN 0 - n ELSE n

RECURSIVE Pow2(_)
Pow2(k) == IF k = 0 THEN 1 ELSE 2 * Pow2(k - 1)

\* the value 1.0
Scale == Pow2(ScaleBits)

RECURSIVE BitLen(_)
BitLen(n) == IF n = 0 THEN 0 ELSE 1 + BitLen(n \div 2)

\* nearest integer to num/den (den > 0, num >= 0), ties to even
DivNearest(num, den) ==
    LET q == num \div den
        r == num % den
    IN  IF 2 * r > den \/ (2 * r = den /\ q % 2 = 1) THEN q + 1 ELSE q

\* a non-negative integer rounded to MantissaBits significant bits
RoundMag(n) ==
    LET len == BitLen(n)
    IN  IF len <= MantissaBits THEN n
        ELSE LET ulp == Pow2(len - MantissaBits)
             IN  DivNearest(n, ulp) * ulp

Round(n) == IF n < 0 THEN 0 - RoundMag(0 - n) ELSE RoundMag(n)

Sign(a, b) == IF (a < 0) = (b < 0) THEN 1 ELSE 0 - 1

FAdd(a, b) == Round(a + b)
FMul(a, b) == Sign(a, b) * RoundMag(DivNearest(Abs(a) * Abs(b), Scale))
FDiv(a, b) == Sign(a, b) * RoundMag(DivNearest(Abs(a) * Scale, Abs(b)))
FromInt(n) == Round(n * Scale)
\* the double nearest to the decimal literal num/den
FromRatio(num, den) == Sign(num, den) * RoundMag(DivNearest(Abs(num) * Scale, Abs(den)))

\* floor of the square root of a non-negative integer, bit by bit
RECURSIVE SqrtBits(_, _, _)
SqrtBits(n, bit, acc) ==
    IF bit = 0 THEN acc
    ELSE LET cand == acc + bit
         IN  IF cand <= 46340 /\ cand * cand <= n
             THEN SqrtBits(n, bit \div 2, cand)
             ELSE SqrtBits(n, bit \div 2, acc)

\* math.sqrt of a non-negative value
FSqrt(a) == RoundMag(SqrtBits(a * Scale, 32768, 0))

\* math.log of a positive value: ln x = 2 atanh((x-1)/(x+1))
RECURSIVE AtanhSeries(_, _, _, _)
AtanhSeries(zpow, zsq, k, n) ==
    IF n = 0 \/ zpow = 0 THEN 0
    ELSE FAdd(FDiv(zpow, FromInt(k)), AtanhSeries(FMul(zpow, zsq), zsq, k + 2, n - 1))

FLog(x) ==
    LET z == FDiv(x - Scale, x + Scale)
    IN  FMul(FromInt(2), AtanhSeries(z, FMul(z, z), 1, LogTerms))

(***************************************************************************)
(* Characters and strings                                                  *)
(***************************************************************************)
LowerLetters ==
    {"a","b","c","d","e","f","g","h","i","j","k","l","m","n","o","p","q",
     "r","s","t","u","v","w","x","y","z"}
AccentedLetters == {"á","é","í","ó","ú","ñ","ü"}
Digits == {"0","1","2","3","4","5","6","7","8","9"}
Whitespace == {" ", "\t", "\n", "\r", "\f"}

\* str.lower() on one character
LowerChar(c) ==
    CASE c = "A" -> "a" [] c = "B" -> "b" [] c = "C" -> "c" [] c = "D" -> "d"
      [] c = "X" -> "x" [] c = "Y" -> "y" [] c = "Z" -> "z" [] c = "Ñ" -> "ñ"
      [] OTHER -> c

Lower(text) == [k \in 1..Len(text) |-> LowerChar(text[k])]

\* faulty variant: the other characters are deleted, not replaced by a space
DeleteDisallowed(text) ==
    SelectSeq(text, LAMBDA c : c \in LowerLetters \cup AccentedLetters \cup Digits \cup Whitespace)

\* re.sub(r'[^a-záéíóúñü0-9\s]', ' ', text)
ReplaceDisallowed(text) ==
    [k \in 1..Len(text) |->
        IF text[k] \in LowerLetters \cup AccentedLetters \cup Digits \cup Whitespace
        THEN text[k] ELSE " "]

\* re.sub(r'\s+', ' ', text)
RECURSIVE CollapseWhitespace(_)
CollapseWhitespace(text) ==
    IF text = <<>> THEN <<>>
    ELSE IF Head(text) \in Whitespace
         THEN IF Len(text) > 1 /\ text[2] \in Whitespace
              THEN CollapseWhitespace(Tail(text))
              ELSE <<" ">> \o CollapseWhitespace(Tail(text))
         ELSE <<Head(text)>> \o CollapseWhitespace(Tail(text))

RECURSIVE LStrip(_)
LStrip(text) ==
    IF text # <<>> /\ Head(text) \in Whitespace THEN LStrip(Tail(text)) ELSE text

RECURSIVE RStrip(_)
RStrip(text) ==
    IF text # <<>> /\ text[Len(text)] \in Whitespace
    THEN RStrip(SubSeq(text, 1, Len(text) - 1)) ELSE text

\* str.strip()
Strip(text) == RStrip(LStrip(text))

\* faulty variant: the ends are stripped before the other characters are replaced
clean_text_strip_first(text) == CollapseWhitespace(ReplaceDisallowed(Lower(Strip(text))))

clean_text(text) == Strip(CollapseWhitespace(ReplaceDisallowed(Lower(text))))

\* str.split(): the maximal runs of non-whitespace characters, in order
RECURSIVE SplitFrom(_, _)
SplitFrom(text, word) ==
    IF text = <<>> THEN (IF word = <<>> THEN <<>> ELSE <<word>>)
    ELSE IF Head(text) \in Whitespace
         THEN (IF word = <<>> THEN <<>> ELSE <<word>>) \o SplitFrom(Tail(text), <<>>)
         ELSE SplitFrom(Tail(text), Append(word, Head(text)))

Split(text) == SplitFrom(text, <<>>)

\* ' '.join(parts)
RECURSIVE Join(_)
Join(parts) ==
    IF parts = <<>> THEN <<>>
    ELSE IF Len(parts) = 1 THEN parts[1]
         ELSE parts[1] \o <<" ">> \o Join(Tail(parts))

Range(seq) == {seq[k] : k \in 1..Len(seq)}

(***************************************************************************)
(* Dictionaries keep insertion order: a dict is a sequence of              *)
(* <<key, value>> pairs with distinct keys.                                *)
(***************************************************************************)
Keys(dict) == {dict[k][1] : k \in 1..Len(dict)}

Get(dict, key, default) ==
    IF key \in Keys(dict)
    THEN dict[CHOOSE k \in 1..Len(dict) : dict[k][1] = key][2]
    ELSE default

\* freq[word] += 1 on a defaultdict(int)
Increment(dict, key) ==
    IF key \in Keys(dict)
    THEN [k \in 1..Len(dict) |->
            IF dict[k][1] = key THEN <<key, dict[k][2] + 1>> ELSE dict[k]]
    ELSE Append(dict, <<key, 1>>)

RECURSIVE CountWords(_, _)
CountWords(words, freq) ==
    IF words = <<>> THEN freq
    ELSE CountWords(Tail(words),
                    IF Len(Head(words)) > 2 THEN Increment(freq, Head(words)) ELSE freq)

\* faulty variant: words of two characters are counted too
RECURSIVE CountWordsFromTwo(_, _)
CountWordsFromTwo(words, freq) ==
    IF words = <<>> THEN freq
    ELSE CountWordsFromTwo(Tail(words),
                           IF Len(Head(words)) > 1 THEN Increment(freq, Head(words)) ELSE freq)

compute_word_freq_from_two(text) == CountWordsFromTwo(Split(text), <<>>)

compute_word_freq(text) == CountWords(Split(text), <<>>)

\* faulty variant: the number of distinct words in place of the sum of the counts
SumCountsDistinct(freq) == Len(freq)

\* sum() of the integer counts of a frequency dict
RECURSIVE SumCounts(_)
SumCounts(freq) == IF freq = <<>> THEN 0 ELSE Head(freq)[2] + SumCounts(Tail(freq))

\* set(text.split()) for each text
WordSets(all_texts) == [k \in 1..Len(all_texts) |-> Range(Split(all_texts[k]))]

\* doc_count[word]: the number of texts whose word set contains word
DocCount(word_sets, word) ==
    Cardinality({k \in 1..Len(word_sets) : word \in word_sets[k]})

\* the keys of doc_count: the words longer than two characters
Vocabulary(word_sets) ==
    {w \in UNION {word_sets[k] : k \in 1..Len(word_sets)} : Len(w) > 2}

\* idf[word] = weight of the document count of word
IdfTable(word_sets, weight_of_count) ==
    [word \in Vocabulary(word_sets) |-> weight_of_count[DocCount(word_sets, word)]]

\* faulty variant: the unsmoothed weight log(num_docs / (1 + count))
compute_idf_unsmoothed(all_texts) ==
    IdfTable(WordSets(all_texts),
             [count \in 1..Len(all_texts) |->
                 FLog(FDiv(FromInt(Len(all_texts)), FromInt(1 + count)))])

\* faulty variant: log((num_docs + 1) / (count + 1)) without the added 1
compute_idf_without_offset(all_texts) ==
    IdfTable(WordSets(all_texts),
             [count \in 1..Len(all_texts) |->
                 FLog(FDiv(FromInt(Len(all_texts) + 1), FromInt(count + 1)))])

\* find_similar_questions.compute_idf: log((num_docs + 1) / (count + 1)) + 1
compute_idf(all_texts) ==
    IdfTable(WordSets(all_texts),
             [count \in 1..Len(all_texts) |->
                 FAdd(FLog(FDiv(FromInt(Len(all_texts) + 1), FromInt(count + 1))),
                      FromInt(1))])

\* QuestionAnalyzer.compute_idf: log(num_docs / (1 + count))
analyzer_compute_idf(all_texts) ==
    IdfTable(WordSets(all_texts),
             [count \in 1..Len(all_texts) |->
                 FLog(FDiv(FromInt(Len(all_texts)), FromInt(1 + count)))])

\* idf.get(word, 0)
IdfGet(idf, word) == IF word \in DOMAIN idf THEN idf[word] ELSE 0

compute_tfidf_vector(text, idf) ==
    LET freq == compute_word_freq(text)
        total_words == SumCounts(freq)
    IN  IF total_words = 0 THEN <<>>
        ELSE [k \in 1..Len(freq) |->
                <<freq[k][1],
                  FMul(FDiv(FromInt(freq[k][2]), FromInt(total_words)),
                       IdfGet(idf, freq[k][1]))>>]

(***************************************************************************)
(* Iteration order of a set of strings.  CPython walks the hash table      *)
(* slot by slot; a string is stored in the first free slot from its hash   *)
(* modulo the table size onwards, so the order depends on the per-process  *)
(* hash seed and, where two strings collide, on the order of insertion.    *)
(***************************************************************************)
Alphabet ==
    <<"a","b","c","d","e","f","g","h","i","j","k","l","m","n","o","p","q",
      "r","s","t","u","v","w","x","y","z","á","é","í","ó","ú","ñ","ü",
      "0","1","2","3","4","5","6","7","8","9">>

HashModulus == 1009
SetTableSize == 8

CharCodes == [c \in Range(Alphabet) |-> CHOOSE k \in 1..Len(Alphabet) : Alphabet[k] = c]

CharCode(c) == IF c \in DOMAIN CharCodes THEN CharCodes[c] ELSE 0

RECURSIVE HashFrom(_, _)
HashFrom(word, h) ==
    IF word = <<>> THEN h
    ELSE HashFrom(Tail(word), (h * 33 + CharCode(Head(word))) % HashModulus)

StrHash(word, seed) == HashFrom(word, (seed * 7 + 5) % HashModulus)

\* a hash table of SetTableSize slots; <<>> marks a free slot
EmptyTable == [slot \in 0..(SetTableSize - 1) |-> <<>>]

\* the slot a key is stored in: the first free slot from hash % size onwards
RECURSIVE ProbeSlot(_, _, _)
ProbeSlot(table, key, slot) ==
    IF table[slot] = <<>> \/ table[slot] = key THEN slot
    ELSE ProbeSlot(table, key, (slot + 1) % SetTableSize)

\* set.add(key)
SetAdd(table, key, seed) ==
    [table EXCEPT ![ProbeSlot(table, key, StrHash(key, seed) % SetTableSize)] = key]

\* set(vec.keys()): the keys are added in the order of the dict
RECURSIVE SetOfKeys(_, _, _)
SetOfKeys(dict, table, seed) ==
    IF dict = <<>> THEN table
    ELSE SetOfKeys(Tail(dict), SetAdd(table, Head(dict)[1], seed), seed)

\* iteration over a set: the used slots in slot order
RECURSIVE SetIterFrom(_, _)
SetIterFrom(table, slot) ==
    IF slot >= SetTableSize THEN <<>>
    ELSE (IF table[slot] = <<>> THEN <<>> ELSE <<table[slot]>>)
         \o SetIterFrom(table, slot + 1)

SetIter(table) == SetIterFrom(table, 0)

\* the keys of `walked` that are in `other`, added to a new set as they are met
RECURSIVE SetFilterInto(_, _, _, _)
SetFilterInto(walked, other, result, seed) ==
    IF walked = <<>> THEN result
    ELSE SetFilterInto(Tail(walked), other,
                       IF Head(walked) \in other
                       THEN SetAdd(result, Head(walked), seed) ELSE result,
                       seed)

\* so & other: CPython walks the right operand unless it is the larger one,
\* and then walks the left operand
SetIntersection(so, other, seed) ==
    LET so_keys == SetIter(so)
        other_keys == SetIter(other)
    IN  IF Len(other_keys) > Len(so_keys)
        THEN SetFilterInto(so_keys, Range(other_keys), EmptyTable, seed)
        ELSE SetFilterInto(other_keys, Range(so_keys), EmptyTable, seed)

\* set(vec1.keys()) & set(vec2.keys()), in iteration order
CommonWords(vec1, vec2, seed) ==
    SetIter(SetIntersection(SetOfKeys(vec1, EmptyTable, seed),
                            SetOfKeys(vec2, EmptyTable, seed), seed))

(***************************************************************************)
(* Cosine similarity                                                       *)
(***************************************************************************)
\* sum() over floats, left to right; the integer start value 0 is exact
RECURSIVE SumFloats(_, _)
SumFloats(values, acc) ==
    IF values = <<>> THEN acc
    ELSE SumFloats(Tail(values), FAdd(acc, Head(values)))

\* faulty variant: the square root is left out
MagnitudeSquared(vec) ==
    SumFloats([k \in 1..Len(vec) |-> FMul(vec[k][2], vec[k][2])], 0)

\* math.sqrt(sum(val**2 for val in vec.values()))
Magnitude(vec) ==
    FSqrt(SumFloats([k \in 1..Len(vec) |-> FMul(vec[k][2], vec[k][2])], 0))

\* faulty variant: only the first common word is taken
DotProductFirstOnly(vec1, vec2, common_order) ==
    FMul(Get(vec1, common_order[1], 0), Get(vec2, common_order[1], 0))

\* sum(vec1[word] * vec2[word] for word in common_words)
DotProduct(vec1, vec2, common_order) ==
    SumFloats([k \in 1..Len(common_order) |->
                  FMul(Get(vec1, common_order[k], 0), Get(vec2, common_order[k], 0))], 0)

\* faulty variant: vectors of magnitude zero are given similarity 1.0
cosine_similarity_zero_as_one(vec1, vec2, seed) ==
    IF vec1 = <<>> \/ vec2 = <<>> THEN 0
    ELSE LET common_words == CommonWords(vec1, vec2, seed)
         IN  IF common_words = <<>> THEN 0
             ELSE LET dot_product == DotProduct(vec1, vec2, common_words)
                      mag1 == Magnitude(vec1)
                      mag2 == Magnitude(vec2)
                  IN  IF mag1 = 0 \/ mag2 = 0 THEN FromInt(1)
                      ELSE FDiv(dot_product, FMul(mag1, mag2))

\* faulty variant: the cosine distance 1 - cos is returned in place of the similarity
cosine_distance(vec1, vec2, seed) ==
    IF vec1 = <<>> \/ vec2 = <<>> THEN 0
    ELSE LET common_words == CommonWords(vec1, vec2, seed)
             mag1 == Magnitude(vec1)
             mag2 == Magnitude(vec2)
         IN  IF mag1 = 0 \/ mag2 = 0 THEN 0
             ELSE FAdd(FromInt(1),
                       0 - FDiv(DotProduct(vec1, vec2, common_words),
                                FMul(mag1, mag2)))

cosine_similarity(vec1, vec2, seed) ==
    IF vec1 = <<>> \/ vec2 = <<>> THEN 0
    ELSE LET common_words == CommonWords(vec1, vec2, seed)
         IN  IF common_words = <<>> THEN 0
             ELSE LET dot_product == DotProduct(vec1, vec2, common_words)
                      mag1 == Magnitude(vec1)
                      mag2 == Magnitude(vec2)
                  IN  IF mag1 = 0 \/ mag2 = 0 THEN 0
                      ELSE FDiv(dot_product, FMul(mag1, mag2))

(***************************************************************************)
(* Question records                                                        *)
(***************************************************************************)
\* extract_question_info: the fields read from one <question> element
Info(type, name, text, answers, feedbacks, generalfeedback) ==
    [type |-> type, name |-> name, text |-> text, answers |-> answers,
     feedbacks |-> feedbacks, generalfeedback |-> generalfeedback]

\* faulty variant: the display name is put in front of the text
get_question_full_text_with_name(info) ==
    Join(<<info.name, info.text>> \o info.answers \o info.feedbacks
         \o (IF info.generalfeedback # <<>> THEN <<info.generalfeedback>> ELSE <<>>))

get_question_full_text(info) ==
    Join(<<info.text>> \o info.answers \o info.feedbacks
         \o (IF info.generalfeedback # <<>> THEN <<info.generalfeedback>> ELSE <<>>))

\* QuestionAnalyzer.analyze_question: f"{name} {text} {' '.join(answer_texts)}"
analyzer_full_text(info) ==
    info.name \o <<" ">> \o info.text \o <<" ">> \o Join(info.answers)

\* the questions a parsed file adds to the list, in document order:
\* categories and questions whose cleaned text is empty are skipped
RECURSIVE QuestionsOf(_, _, _)
QuestionsOf(elems, file, index) ==
    IF elems = <<>> THEN <<>>
    ELSE LET info == Head(elems)
             full_text == get_question_full_text(info)
             clean == clean_text(full_text)
             rest == QuestionsOf(Tail(elems), file, index + 1)
         IN  IF info.type = "category" THEN rest
             ELSE IF clean # <<>>
                  THEN <<[file |-> file, index |-> index, info |-> info,
                          text |-> clean, full_text |-> full_text]>> \o rest
                  ELSE rest

\* the questions analyze_question stores for one file: categories are skipped
RECURSIVE AnalyzerQuestionsOf(_, _)
AnalyzerQuestionsOf(elems, file) ==
    IF elems = <<>> THEN <<>>
    ELSE LET info == Head(elems)
             rest == AnalyzerQuestionsOf(Tail(elems), file)
         IN  IF info.type = "category" THEN rest
             ELSE <<[file |-> file, info |-> info,
                     full_text |-> analyzer_full_text(info)]>> \o rest

(***************************************************************************)
(* Pair list                                                               *)
(***************************************************************************)
\* faulty variant: a new element overtakes the elements equal to it
RECURSIVE InsertDescUnstable(_, _)
InsertDescUnstable(sorted, triple) ==
    IF sorted = <<>> THEN <<triple>>
    ELSE IF Head(sorted)[3] > triple[3]
         THEN <<Head(sorted)>> \o InsertDescUnstable(Tail(sorted), triple)
         ELSE <<triple>> \o sorted

\* position at which a stable descending sort places a new last element
RECURSIVE InsertDesc(_, _)
InsertDesc(sorted, triple) ==
    IF sorted = <<>> THEN <<triple>>
    ELSE IF Head(sorted)[3] >= triple[3]
         THEN <<Head(sorted)>> \o InsertDesc(Tail(sorted), triple)
         ELSE <<triple>> \o sorted

\* list.sort(key=lambda x: x[2], reverse=True): stable, descending
RECURSIVE SortDesc(_)
SortDesc(pairs) ==
    IF pairs = <<>> THEN <<>>
    ELSE InsertDesc(SortDesc(SubSeq(pairs, 1, Len(pairs) - 1)), pairs[Len(pairs)])

\* the index pairs of the nested loops over range(n), in loop order
RECURSIVE LoopPairsFrom(_, _, _)
LoopPairsFrom(i, j, n) ==
    IF i >= n - 1 THEN <<>>
    ELSE IF j >= n THEN LoopPairsFrom(i + 1, i + 2, n)
    ELSE <<<<i, j>>>> \o LoopPairsFrom(i, j + 1, n)

LoopPairs(n) == LoopPairsFrom(0, 1, n)

\* faulty variants of the threshold comparison
RetainedStrict(similarity, t) == similarity > t
RetainedBelow(similarity, t) == similarity <= t
RetainedPositive(similarity, t) == similarity > 0 /\ similarity >= t

\* similarity >= threshold
Retained(similarity, t) == similarity >= t

RECURSIVE FilterPairs(_, _, _, _)
FilterPairs(pairs, vecs, t, seed) ==
    IF pairs = <<>> THEN <<>>
    ELSE LET i == Head(pairs)[1]
             j == Head(pairs)[2]
             similarity == cosine_similarity(vecs[i + 1], vecs[j + 1], seed)
             rest == FilterPairs(Tail(pairs), vecs, t, seed)
         IN  IF Retained(similarity, t) THEN <<<<i, j, similarity>>>> \o rest ELSE rest

\* the whole pair search of find_similar_questions_in_file over cleaned texts
VectorsWith(texts, table) ==
    [k \in 1..Len(texts) |-> compute_tfidf_vector(texts[k], table)]

\* the pair loop and the sort over vectors already built
FindSimilarAmong(vecs, t, seed) ==
    SortDesc(FilterPairs(LoopPairs(Len(vecs)), vecs, t, seed))

FindSimilar(texts, t, seed) ==
    FindSimilarAmong(VectorsWith(texts, compute_idf(texts)), t, seed)

(***************************************************************************)
(* Inputs                                                                  *)
(***************************************************************************)
MaxFiles == 2
MaxElements == 3
HashSeeds == {0, 1}

Wabc == <<"a","b","c">>
Wabd == <<"a","b","d">>
Wdcb == <<"d","c","b">>
Wxyz == <<"x","y","z">>
Wbcd == <<"b","c","d">>

\* "Xyz bcd?"  ->  "xyz bcd"
ElemPlain ==
    Info("multichoice", Wabc, <<"X","y","z"," ">> \o Wbcd \o <<"?">>, <<>>, <<>>, <<>>)
\* "xyz" + answer "BCD"  ->  "xyz bcd", under another name
ElemSameText ==
    Info("multichoice", Wdcb, Wxyz, << <<"B","C","D">> >>, <<>>, <<>>)
\* "a b cd": no token longer than two characters
ElemShortTokens ==
    Info("truefalse", Wabd, <<"a"," ","b"," ","c","d">>, <<>>, <<>>, <<>>)
\* "abc abc" + answer "abd" + feedback "dcb"
ElemThreeWords ==
    Info("multichoice", Wxyz, Wabc \o <<" ">> \o Wabc, <<Wabd>>, <<Wdcb>>, <<>>)
\* "abc\tabd abd" + answer "dcb dcb" + general feedback "xyz"
ElemFourWords ==
    Info("shortanswer", <<"n","1">>, Wabc \o <<"\t">> \o Wabd \o <<" ">> \o Wabd,
         <<Wdcb \o <<" ">> \o Wdcb>>, <<>>, Wxyz)
\* a category entry
ElemCategory ==
    Info("category", <<>>, <<>>, <<>>, <<>>, <<>>)
\* "?!": nothing is left after cleaning
ElemPunctuation ==
    Info("description", Wabc, <<"?","!">>, <<>>, <<>>, <<>>)

SeqsUpTo(S, n) == UNION {[1..k -> S] : k \in 0..n}

\* one word under a name that is the same word: shares no token with the others
ElemDisjoint ==
    Info("essay", Wabd, Wabd, <<>>, <<>>, <<>>)
\* the words of ElemThreeWords, met in another order
ElemReordered ==
    Info("multichoice", Wbcd,
         Wabc \o <<" ">> \o Wabc \o <<" ">> \o Wabc \o <<" ">> \o Wdcb \o <<" ">> \o Wabd,
         <<>>, <<>>, <<>>)

\* "ab abc abc d xyz": short and long tokens
ElemMixed ==
    Info("shortanswer", Wxyz,
         <<"a","b"," ">> \o Wabc \o <<" ">> \o Wabc \o <<" ","d"," ">> \o Wxyz,
         <<>>, <<>>, <<>>)

ElementPool ==
    {ElemPlain, ElemSameText, ElemShortTokens, ElemThreeWords, ElemFourWords,
     ElemCategory, ElemPunctuation}

\* the elements found in the files of a directory
DirectoryPool == {ElemPlain, ElemSameText, ElemFourWords}
AnalyzerPool == {ElemPlain, ElemSameText, ElemDisjoint}
ChainPool == {ElemPlain, ElemDisjoint}
\* a file of questions over the same few words
CorpusPool == {ElemThreeWords, ElemReordered, ElemShortTokens, ElemPlain, ElemMixed}

\* extract_text_from_cdata: the text of an XML node, stripped
extract_text_from_cdata(text) == Strip(text)

\* characters of the raw question texts
MaxRawLen == 3
RawChars == {"a", "B", "Ñ", "é", "7", "?", " ", "\t"}
\* a question with nothing but its question text
RawPool ==
    {Info("multichoice", <<>>, extract_text_from_cdata(raw), <<>>, <<>>, <<>>) :
        raw \in SeqsUpTo(RawChars, MaxRawLen)}

\* a file on disk: well-formed XML with its <question> elements, or malformed
FileContents(pool, n) ==
    {[status |-> "ok", elems |-> e] : e \in SeqsUpTo(pool, n)}
        \cup {[status |-> "parse_error", elems |-> <<>>]}

\* similarity >= 0.99: the pair is reported as an exact duplicate
ExactDuplicate(similarity) == similarity >= FromRatio(99, 100)

\* thresholds at which the retained set is compared
ProbeThresholds ==
    {0, FromRatio(1, 100), FromRatio(1, 2), FromRatio(7, 10), FromRatio(99, 100), FromInt(1)}

\* --threshold / --similarity as parsed by argparse (type=float)
Thresholds ==
    {FromRatio(0 - 1, 2), 0, FromRatio(99, 100), FromRatio(3, 2)}

\* faulty variant: only the upper end is checked
ThresholdUpperOnly(t) == t <= FromInt(1)

\* not 0.0 <= args.threshold <= 1.0
ThresholdInRange(t) == 0 <= t /\ t <= FromInt(1)

Modes == {"file", "directory", "analyzer"}

(***************************************************************************)
(* State                                                                   *)
(***************************************************************************)
VARIABLES
    mode,           \* which script runs, and for find_similar_questions which mode
    threshold,      \* args.threshold / args.similarity
    hashSeed,       \* the string hash seed of this process
    pc,             \* position in main
    xml_files,      \* number of XML files to read
    source,         \* the files read so far, as they are on disk
    questions,      \* questions / all_questions
    idf,            \* the IDF table
    vectors,        \* q['vector'] for each question
    i, j,           \* loop indices of the pair loop
    similar_pairs,  \* similar_pairs / self.duplicates
    compared,       \* every call of cosine_similarity made by the pair loop
    stats,          \* QuestionAnalyzer.stats file counters
    base_path,      \* QuestionAnalyzer.base_path, "unset" until scan_directory
    summary,        \* the statistics find_similar_questions reports on the pairs
    exit_code,      \* exit status of main, -1 while running
    options,        \* the command line of a file utility
    disk,           \* the directory: file name -> content
    todo,           \* xml_files / files still to be processed by process_directory
    used_names,     \* used_names of rename_xml_files_by_question_name
    log,            \* what the run has printed about each file
    preview         \* the outcome of an earlier --dry-run on the same directory

\* the state of the file utilities
toolvars == <<options, disk, todo, used_names, log, preview>>

\* the state of the similarity search
searchvars == <<threshold, hashSeed, xml_files, source, questions, idf, vectors, i, j,
                similar_pairs, compared, stats, base_path, summary>>

vars == <<mode, threshold, hashSeed, pc, xml_files, source, questions, idf,
          vectors, i, j, similar_pairs, compared, stats, base_path, summary, exit_code,
          toolvars>>

\* no file utility runs
NoOptions == [target |-> "none"]
EmptyDisk == [name \in {} |-> 0]
NoPreview == [taken |-> FALSE]

\* faulty variant: the positions in the files are compared, not the files
CrossFileByIndex(q1, q2) == q1.index # q2.index

\* questions[i].get('file') != questions[j].get('file')
CrossFile(q1, q2) == q1.file # q2.file

\* sum(1 for i, j, _ in similar_pairs if the files differ)
RECURSIVE CrossFilePairs(_, _)
CrossFilePairs(qs, pairs) ==
    IF pairs = <<>> THEN 0
    ELSE (IF CrossFile(qs[Head(pairs)[1] + 1], qs[Head(pairs)[2] + 1]) THEN 1 ELSE 0)
         + CrossFilePairs(qs, Tail(pairs))

\* sum(1 for _, _, s in similar_pairs if s >= 0.99)
RECURSIVE ExactDuplicates(_)
ExactDuplicates(pairs) ==
    IF pairs = <<>> THEN 0
    ELSE (IF ExactDuplicate(Head(pairs)[3]) THEN 1 ELSE 0) + ExactDuplicates(Tail(pairs))

\* faulty variant: the file of the first question of the pair is listed
DeleteCandidateFirst(q1, q2) == q1.file

\* files_to_delete.add(q2['rel_file'])
DeleteCandidate(q1, q2) == q2.file

\* exact_duplicates: the pairs of similarity >= 0.99 between different files
ExactCrossFilePairs(qs, pairs) ==
    SelectSeq(pairs, LAMBDA p : /\ ExactDuplicate(p[3])
                                /\ CrossFile(qs[p[1] + 1], qs[p[2] + 1]))

\* no script file exists
NoScript == [written |-> FALSE, exact_duplicates |-> <<>>, files_to_delete |-> {}]

\* generate_delete_script: the script is written unless exact_duplicates is
\* empty, with one rm line for each file of files_to_delete
generate_delete_script(qs, pairs) ==
    LET exact_duplicates == ExactCrossFilePairs(qs, pairs)
    IN  IF exact_duplicates = <<>>
        THEN NoScript
        ELSE [written |-> TRUE,
              exact_duplicates |-> exact_duplicates,
              files_to_delete |->
                  {DeleteCandidate(qs[exact_duplicates[k][1] + 1],
                                   qs[exact_duplicates[k][2] + 1]) :
                      k \in 1..Len(exact_duplicates)}]

\* nothing is computed when no pair was found
NoSummary ==
    [statistics |-> FALSE, pairs |-> 0, average |-> 0, maximum |-> 0, minimum |-> 0,
     by_file |-> FALSE, cross_file_pairs |-> 0, same_file_pairs |-> 0, exact_dups |-> 0,
     delete_script |-> NoScript]

\* the summary of main or of QuestionAnalyzer.generate_report and, in
\* directory mode, the statistics per file and the delete script
Summarize(qs, pairs, directory) ==
    [statistics |-> TRUE,
     pairs |-> Len(pairs),
     average |-> FDiv(SumFloats([k \in 1..Len(pairs) |-> pairs[k][3]], 0),
                      FromInt(Len(pairs))),
     maximum |-> pairs[1][3],
     minimum |-> pairs[Len(pairs)][3],
     by_file |-> directory,
     cross_file_pairs |-> IF directory THEN CrossFilePairs(qs, pairs) ELSE 0,
     same_file_pairs |-> IF directory THEN Len(pairs) - CrossFilePairs(qs, pairs) ELSE 0,
     exact_dups |-> IF directory THEN ExactDuplicates(pairs) ELSE 0,
     delete_script |-> IF directory THEN generate_delete_script(qs, pairs) ELSE NoScript]

RECURSIVE ElementsRead(_)
ElementsRead(files) ==
    IF files = <<>> THEN 0 ELSE Len(Head(files).elems) + ElementsRead(Tail(files))

Texts(qs) == [k \in 1..Len(qs) |-> qs[k].text]

Init ==
    /\ mode \in Modes
    /\ threshold \in Thresholds
    /\ hashSeed \in HashSeeds
    /\ pc = "main"
    /\ xml_files \in IF mode = "file" THEN {1} ELSE 0..MaxFiles
    /\ source = <<>>
    /\ questions = <<>>
    /\ idf = <<>>
    /\ vectors = <<>>
    /\ i = 0
    /\ j = 1
    /\ similar_pairs = <<>>
    /\ compared = <<>>
    /\ stats = [total_files |-> 0, valid_files |-> 0, invalid_files |-> 0]
    /\ base_path = "unset"
    /\ summary = NoSummary
    /\ exit_code = 0 - 1
    /\ options = NoOptions
    /\ disk = EmptyDisk
    /\ todo = <<>>
    /\ used_names = {}
    /\ log = <<>>
    /\ preview = NoPreview

(***************************************************************************)
(* main: argument validation                                               *)
(***************************************************************************)
ValidateArgs ==
    /\ pc = "main"
    /\ IF ThresholdInRange(threshold)
       THEN /\ pc' = IF mode # "file" /\ xml_files = 0 THEN "report" ELSE "load"
            /\ UNCHANGED exit_code
       ELSE /\ pc' = "error"
            /\ exit_code' = IF mode = "analyzer" THEN 1 ELSE 2
    /\ base_path' = IF mode = "analyzer" /\ ThresholdInRange(threshold)
                    THEN "set" ELSE base_path
    /\ UNCHANGED <<toolvars, summary, mode, threshold, hashSeed, xml_files, source, questions, idf,
                   vectors, i, j, similar_pairs, compared, stats>>

(***************************************************************************)
(* Loading                                                                 *)
(***************************************************************************)
\* find_similar_questions_in_file: load_questions_from_file(xml_file)
LoadFileFrom(pool, n) ==
    /\ pc = "load"
    /\ mode = "file"
    /\ \E content \in FileContents(pool, n) :
        /\ source' = Append(source, content)
        /\ IF content.status = "ok"
           THEN /\ questions' = QuestionsOf(content.elems, 1, 0)
                /\ pc' = "idf"
                /\ UNCHANGED exit_code
           ELSE /\ pc' = "error"
                /\ exit_code' = 1
                /\ UNCHANGED questions
    /\ UNCHANGED <<toolvars, base_path, summary, mode, threshold, hashSeed, xml_files, idf, vectors, i, j,
                   similar_pairs, compared, stats>>

LoadSingleFile == LoadFileFrom(ElementPool, MaxElements)

\* a file of questions over the same few words
LoadCorpusFile == LoadFileFrom(CorpusPool, MaxElements)

\* a file with one question, of any short text
LoadRawFile == LoadFileFrom(RawPool, 1)

\* a file that stops parsing after some <question> elements
DamagedContents(pool, n) ==
    {[status |-> "parse_error", elems |-> e] : e \in SeqsUpTo(pool, n) \ {<<>>}}

\* faulty variant: the questions read before the error are kept
LoadedQuestionsPartial(content, file) == QuestionsOf(content.elems, file, 0)

\* what a file adds to all_questions: nothing when load_questions_from_file
\* raises, ET.parse having read the whole file before any question is built
LoadedQuestions(content, file) ==
    IF content.status = "ok" THEN QuestionsOf(content.elems, file, 0) ELSE <<>>

\* find_similar_questions_in_directory: one iteration of the loading loop
LoadDirectoryFrom(pool, n, damaged) ==
    /\ pc = "load"
    /\ mode = "directory"
    /\ Len(source) < xml_files
    /\ \E content \in FileContents(pool, n - ElementsRead(source))
                        \cup (IF damaged
                              THEN DamagedContents(pool, n - ElementsRead(source))
                              ELSE {}) :
        /\ source' = Append(source, content)
        /\ questions' = questions \o LoadedQuestions(content, Len(source) + 1)
        /\ pc' = IF Len(source') < xml_files THEN "load"
                 ELSE IF Len(questions') = 0 THEN "report" ELSE "idf"
    /\ UNCHANGED <<toolvars, base_path, summary, mode, threshold, hashSeed, xml_files, idf, vectors, i, j,
                   similar_pairs, compared, stats, exit_code>>

LoadDirectoryFile == LoadDirectoryFrom(DirectoryPool, MaxElements, FALSE)

\* a directory of files that repeat two questions
LoadChainFile == LoadDirectoryFrom(ChainPool, MaxElements + 1, FALSE)

\* a directory where a file may break off after some questions
LoadDamagedFile == LoadDirectoryFrom(ChainPool, MaxElements, TRUE)

\* QuestionAnalyzer.analyze_file: the counters, and whether the questions of
\* the file are analysed; a file that parses is counted as valid and then its
\* depth below base_path is taken, which raises when scan_directory has not
\* set the attribute, and the handler counts the file as invalid
analyze_file(counters, content, path_known) ==
    LET counted == [counters EXCEPT !.total_files = @ + 1]
    IN  IF content.status # "ok"
        THEN [stats |-> [counted EXCEPT !.invalid_files = @ + 1], analysed |-> FALSE]
        ELSE IF ~path_known
        THEN [stats |-> [counted EXCEPT !.valid_files = @ + 1, !.invalid_files = @ + 1],
              analysed |-> FALSE]
        ELSE [stats |-> [counted EXCEPT !.valid_files = @ + 1], analysed |-> TRUE]

\* analyze_file is called on the next file; scan_directory goes on to
\* find_duplicates after the last one
AnalyzeFileThen(at, next) ==
    /\ pc = at
    /\ mode = "analyzer"
    /\ Len(source) < xml_files
    /\ \E content \in FileContents(AnalyzerPool, MaxElements - ElementsRead(source)) :
        LET result == analyze_file(stats, content, base_path = "set")
        IN  /\ source' = Append(source, content)
            /\ stats' = result.stats
            /\ questions' = IF result.analysed
                            THEN questions \o AnalyzerQuestionsOf(content.elems, Len(source) + 1)
                            ELSE questions
            /\ pc' = IF Len(source') < xml_files THEN at ELSE next
    /\ UNCHANGED <<toolvars, base_path, summary, mode, threshold, hashSeed, xml_files, idf,
                   vectors, i, j, similar_pairs, compared, exit_code>>

\* QuestionAnalyzer.analyze_file, called by scan_directory for each file
AnalyzeFile == AnalyzeFileThen("load", "find_duplicates")

\* QuestionAnalyzer.analyze_file, called on a new analyzer for each file
AnalyzeFileCall == AnalyzeFileThen("main", "called")

\* QuestionAnalyzer.find_duplicates: the size check and the text preparation
PrepareTexts ==
    /\ pc = "find_duplicates"
    /\ IF Len(questions) < 2
       THEN /\ pc' = "report"
            /\ UNCHANGED questions
       ELSE /\ questions' = [k \in 1..Len(questions) |->
                                [file |-> questions[k].file,
                                 info |-> questions[k].info,
                                 full_text |-> questions[k].full_text,
                                 text |-> clean_text(questions[k].full_text)]]
            /\ pc' = "idf"
    /\ UNCHANGED <<toolvars, base_path, summary, mode, threshold, hashSeed, xml_files, source, idf, vectors, i, j,
                   similar_pairs, compared, stats, exit_code>>

(***************************************************************************)
(* Vectorization and the pair loop                                         *)
(***************************************************************************)
\* faulty variant: the table is computed from the questions of the first file
ComputeIdfFirstFile ==
    /\ pc = "idf"
    /\ idf' = compute_idf(Texts(SelectSeq(questions, LAMBDA q : q.file = 1)))
    /\ pc' = "vectors"
    /\ UNCHANGED <<toolvars, base_path, summary, mode, threshold, hashSeed, xml_files, source, questions, vectors,
                   i, j, similar_pairs, compared, stats, exit_code>>

ComputeIdf ==
    /\ pc = "idf"
    /\ idf' = IF mode = "analyzer"
              THEN analyzer_compute_idf(Texts(questions))
              ELSE compute_idf(Texts(questions))
    /\ pc' = "vectors"
    /\ UNCHANGED <<toolvars, base_path, summary, mode, threshold, hashSeed, xml_files, source, questions, vectors,
                   i, j, similar_pairs, compared, stats, exit_code>>

\* faulty variant: the inner loop starts at i instead of i + 1
ComputeVectorsSelfPair ==
    /\ pc = "vectors"
    /\ vectors' = [k \in 1..Len(questions) |->
                      compute_tfidf_vector(questions[k].text, idf)]
    /\ i' = 0
    /\ j' = 0
    /\ pc' = IF Len(questions) >= 1 THEN "compare" ELSE "sort"
    /\ UNCHANGED <<toolvars, base_path, summary, mode, threshold, hashSeed, xml_files, source, questions, idf,
                   similar_pairs, compared, stats, exit_code>>

ComputeVectors ==
    /\ pc = "vectors"
    /\ vectors' = [k \in 1..Len(questions) |->
                      compute_tfidf_vector(questions[k].text, idf)]
    /\ i' = 0
    /\ j' = 1
    /\ pc' = IF Len(questions) >= 2 THEN "compare" ELSE "sort"
    /\ UNCHANGED <<toolvars, base_path, summary, mode, threshold, hashSeed, xml_files, source, questions, idf,
                   similar_pairs, compared, stats, exit_code>>

\* one iteration of the inner loop
ComparePair ==
    /\ pc = "compare"
    /\ \E similarity \in {cosine_similarity(vectors[i + 1], vectors[j + 1], hashSeed)} :
       LET n == Len(questions)
       IN  /\ compared' = Append(compared, <<i, j, similarity>>)
           /\ similar_pairs' = IF Retained(similarity, threshold)
                               THEN Append(similar_pairs, <<i, j, similarity>>)
                               ELSE similar_pairs
           /\ IF j + 1 < n
              THEN /\ j' = j + 1
                   /\ UNCHANGED <<i, pc>>
              ELSE IF i + 2 < n
                   THEN /\ i' = i + 1
                        /\ j' = i + 2
                        /\ UNCHANGED pc
                   ELSE /\ pc' = "sort"
                        /\ UNCHANGED <<i, j>>
    /\ UNCHANGED <<toolvars, base_path, summary, mode, threshold, hashSeed, xml_files, source, questions, idf,
                   vectors, stats, exit_code>>

\* faulty variant: the list is left in loop order
SortPairsSkipped ==
    /\ pc = "sort"
    /\ pc' = "report"
    /\ UNCHANGED <<toolvars, base_path, summary, mode, threshold, hashSeed, xml_files, source, questions, idf,
                   vectors, i, j, similar_pairs, compared, stats, exit_code>>

\* similar_pairs.sort(key=lambda x: x[2], reverse=True)
SortPairs ==
    /\ pc = "sort"
    /\ similar_pairs' = SortDesc(similar_pairs)
    /\ pc' = "report"
    /\ UNCHANGED <<toolvars, base_path, summary, mode, threshold, hashSeed, xml_files, source, questions, idf,
                   vectors, i, j, compared, stats, exit_code>>

\* main prints the results and the summary, writes the report and returns 0
Finish ==
    /\ pc = "report"
    /\ pc' = "done"
    /\ exit_code' = 0
    /\ summary' = IF similar_pairs = <<>>
                  THEN NoSummary
                  ELSE Summarize(questions, similar_pairs, mode = "directory")
    /\ UNCHANGED <<toolvars, base_path, mode, threshold, hashSeed, xml_files, source, questions, idf,
                   vectors, i, j, similar_pairs, compared, stats>>

Next ==
    \/ ValidateArgs
    \/ LoadSingleFile
    \/ LoadDirectoryFile
    \/ AnalyzeFile
    \/ PrepareTexts
    \/ ComputeIdf
    \/ ComputeVectors
    \/ ComparePair
    \/ SortPairs
    \/ Finish

Spec == Init /\ [][Next]_vars

\* find_similar_questions.py, on one file or with -d on a directory
InitFind == Init /\ mode \in {"file", "directory"}
NextFind ==
    \/ ValidateArgs
    \/ LoadSingleFile
    \/ LoadDirectoryFile
    \/ ComputeIdf
    \/ ComputeVectors
    \/ ComparePair
    \/ SortPairs
    \/ Finish
SpecFind == InitFind /\ [][NextFind]_vars

\* find_similar_questions.py on one file
InitFile == Init /\ mode = "file"
NextFile ==
    \/ ValidateArgs
    \/ LoadSingleFile
    \/ ComputeIdf
    \/ ComputeVectors
    \/ ComparePair
    \/ SortPairs
    \/ Finish
SpecFile == InitFile /\ [][NextFile]_vars

\* find_similar_questions.py -d on a directory of one file more, whose files
\* repeat two questions
InitChain ==
    /\ mode = "directory"
    /\ threshold \in Thresholds
    /\ hashSeed \in HashSeeds
    /\ pc = "main"
    /\ xml_files = MaxFiles + 1
    /\ source = <<>>
    /\ questions = <<>>
    /\ idf = <<>>
    /\ vectors = <<>>
    /\ i = 0
    /\ j = 1
    /\ similar_pairs = <<>>
    /\ compared = <<>>
    /\ stats = [total_files |-> 0, valid_files |-> 0, invalid_files |-> 0]
    /\ base_path = "unset"
    /\ summary = NoSummary
    /\ exit_code = 0 - 1
    /\ options = NoOptions
    /\ disk = EmptyDisk
    /\ todo = <<>>
    /\ used_names = {}
    /\ log = <<>>
    /\ preview = NoPreview
NextChain ==
    \/ ValidateArgs
    \/ LoadChainFile
    \/ ComputeIdf
    \/ ComputeVectors
    \/ ComparePair
    \/ SortPairs
    \/ Finish
SpecChain == InitChain /\ [][NextChain]_vars

\* find_similar_questions.py -d on a directory with damaged files
InitDirectory == Init /\ mode = "directory"
NextDamaged ==
    \/ ValidateArgs
    \/ LoadDamagedFile
    \/ ComputeIdf
    \/ ComputeVectors
    \/ ComparePair
    \/ SortPairs
    \/ Finish
SpecDamaged == InitDirectory /\ [][NextDamaged]_vars

\* evaluate_questions_directory.py
InitAnalyzer == Init /\ mode = "analyzer"
NextAnalyzer ==
    \/ ValidateArgs
    \/ AnalyzeFile
    \/ PrepareTexts
    \/ ComputeIdf
    \/ ComputeVectors
    \/ ComparePair
    \/ SortPairs
    \/ Finish
SpecAnalyzer == InitAnalyzer /\ [][NextAnalyzer]_vars

\* a QuestionAnalyzer whose analyze_file is called file by file
NextAnalyzeFile == AnalyzeFileCall
SpecAnalyzeFile == InitAnalyzer /\ [][NextAnalyzeFile]_vars

\* find_similar_questions.py on one file of questions over the same few words
NextCorpus ==
    \/ ValidateArgs
    \/ LoadCorpusFile
    \/ ComputeIdf
    \/ ComputeVectors
    \/ ComparePair
    \/ SortPairs
    \/ Finish
SpecCorpus == InitFile /\ [][NextCorpus]_vars

\* find_similar_questions.py up to the loading of one question
NextClean ==
    \/ ValidateArgs
    \/ LoadRawFile
SpecClean == InitFile /\ [][NextClean]_vars

(***************************************************************************)
(* File utilities: file names and file contents                            *)
(***************************************************************************)
\* what the utilities read in one <question> element
Question(name, tags, text, code) ==
    [name |-> name, tags |-> tags, text |-> text, code |-> code]

\* a file that parses, with its <question> elements
Parsed(qs) == [status |-> "ok", questions |-> qs]
\* a file ET.parse rejects
Malformed == [status |-> "parse_error", questions |-> <<>>]

XmlSuffix == <<".", "x", "m", "l">>
BakSuffix == <<".", "b", "a", "k">>

\* str(n) for n >= 0
RECURSIVE Decimal(_)
Decimal(n) ==
    LET digit(d) == <<"0", "1", "2", "3", "4", "5", "6", "7", "8", "9">>[d + 1]
    IN  IF n < 10 THEN <<digit(n)>> ELSE Decimal(n \div 10) \o <<digit(n % 10)>>

\* name.endswith(suffix)
EndsWith(name, suffix) ==
    /\ Len(name) >= Len(suffix)
    /\ SubSeq(name, Len(name) - Len(suffix) + 1, Len(name)) = suffix

\* glob('*.xml') over the directory
XmlFiles(fs) == {name \in DOMAIN fs : EndsWith(name, XmlSuffix)}

\* the orders in which glob may list a set of files
Orders(S) ==
    {order \in [1..Cardinality(S) -> S] :
        \A a, b \in 1..Cardinality(S) : a # b => order[a] # order[b]}

(***************************************************************************)
(* rename_xml_files_by_question_name.py                                    *)
(***************************************************************************)
MaxFilenameLength == 200
CollisionLimit == 1000

\* accent_map, for the accented letters of the alphabet
AccentFree(c) ==
    CASE c = "á" -> "a" [] c = "é" -> "e" [] c = "í" -> "i" [] c = "ó" -> "o"
      [] c = "ú" -> "u" [] c = "ñ" -> "n" [] c = "ü" -> "u" [] OTHER -> c

\* re.sub(r'_+', '_', text)
RECURSIVE CollapseUnderscores(_)
CollapseUnderscores(text) ==
    IF text = <<>> THEN <<>>
    ELSE IF Head(text) = "_" /\ Len(text) > 1 /\ text[2] = "_"
         THEN CollapseUnderscores(Tail(text))
         ELSE <<Head(text)>> \o CollapseUnderscores(Tail(text))

\* text.rstrip('_-')
RECURSIVE RStripDashes(_)
RStripDashes(text) ==
    IF text # <<>> /\ text[Len(text)] \in {"_", "-"}
    THEN RStripDashes(SubSeq(text, 1, Len(text) - 1)) ELSE text

\* text.lstrip('_-')
RECURSIVE LStripDashes(_)
LStripDashes(text) ==
    IF text # <<>> /\ Head(text) \in {"_", "-"} THEN LStripDashes(Tail(text)) ELSE text

sanitize_filename(text) ==
    LET lowered == Lower(text)
        unaccented == [k \in 1..Len(lowered) |-> AccentFree(lowered[k])]
        underscored == [k \in 1..Len(unaccented) |->
                           IF unaccented[k] = " " THEN "_" ELSE unaccented[k]]
        kept == SelectSeq(underscored,
                          LAMBDA c : c \in LowerLetters \cup Digits \cup {"_", "-"})
        stripped == RStripDashes(LStripDashes(CollapseUnderscores(kept)))
        limited == IF Len(stripped) > MaxFilenameLength
                   THEN RStripDashes(SubSeq(stripped, 1, MaxFilenameLength))
                   ELSE stripped
    IN  IF limited = <<>>
        THEN <<"u","n","n","a","m","e","d","_","q","u","e","s","t","i","o","n">>
        ELSE limited

\* get_question_name_from_xml: the stripped name of the first question; an
\* empty name stands for None
get_question_name_from_xml(content) ==
    IF content.status # "ok" THEN [raised |-> TRUE, name |-> <<>>]
    ELSE IF content.questions = <<>> THEN [raised |-> FALSE, name |-> <<>>]
    ELSE [raised |-> FALSE, name |-> Strip(content.questions[1].name)]

\* f"{sanitized_name}__{collision_counter}.xml"
Candidate(sanitized_name, collision_counter) ==
    sanitized_name \o <<"_", "_">> \o Decimal(collision_counter) \o XmlSuffix


\* the name the loop tests in its iteration k + 1: the plain name, then the
\* suffixes __1, __2, ...
Tried(sanitized_name, k) ==
    IF k = 0 THEN sanitized_name \o XmlSuffix ELSE Candidate(sanitized_name, k)

\* faulty variant: only the names given out in this run are avoided
NewFilenameUsedOnly(fs, used, sanitized_name, force) ==
    LET Collides(k) == Tried(sanitized_name, k) \in used
    IN  IF force THEN Tried(sanitized_name, 0)
        ELSE IF \A k \in 0..(CollisionLimit - 1) : Collides(k) THEN <<>>
        ELSE Tried(sanitized_name,
                   CHOOSE k \in 0..(CollisionLimit - 1) :
                       ~Collides(k) /\ \A m \in 0..(k - 1) : Collides(m))

\* the while loop of rename_xml_file: collision_counter starts at 1, the
\* iteration that finds Tried(k) taken builds Tried(k + 1) and raises when
\* collision_counter has passed CollisionLimit, so the names tested are
\* Tried(0) .. Tried(CollisionLimit - 1); <<>> stands for the exception
NewFilename(fs, used, sanitized_name, force) ==
    LET Collides(k) ==
            \/ Tried(sanitized_name, k) \in used
            \/ Tried(sanitized_name, k) \in DOMAIN fs
    IN  IF force THEN Tried(sanitized_name, 0)
        ELSE IF \A k \in 0..(CollisionLimit - 1) : Collides(k) THEN <<>>
        ELSE Tried(sanitized_name,
                   CHOOSE k \in 0..(CollisionLimit - 1) :
                       ~Collides(k) /\ \A m \in 0..(k - 1) : Collides(m))

\* new_path.unlink() if it exists, then path.rename(new_path)
RenamePath(fs, old_name, new_name) ==
    [name \in (DOMAIN fs \ {old_name}) \cup {new_name} |->
        IF name = new_name THEN fs[old_name] ELSE fs[name]]

\* rename_xml_file raises
RenameRaised(fs, used, old_name) ==
    [raised |-> TRUE, success |-> FALSE, old_name |-> old_name, new_name |-> <<>>,
     disk |-> fs, used_names |-> used]

rename_xml_file(fs, used, xml_path, dry_run, force) ==
    IF xml_path \notin DOMAIN fs THEN RenameRaised(fs, used, xml_path)
    ELSE LET question_name == get_question_name_from_xml(fs[xml_path])
         IN  IF question_name.raised \/ question_name.name = <<>>
             THEN RenameRaised(fs, used, xml_path)
             ELSE LET sanitized_name == sanitize_filename(question_name.name)
                      plain == sanitized_name \o XmlSuffix
                      new_filename == NewFilename(fs, used, sanitized_name, force)
                  IN  IF xml_path = plain
                      THEN [raised |-> FALSE, success |-> FALSE, old_name |-> xml_path,
                            new_name |-> plain, disk |-> fs,
                            used_names |-> used \cup {plain}]
                      ELSE IF new_filename = <<>>
                      THEN RenameRaised(fs, used, xml_path)
                      ELSE [raised |-> FALSE, success |-> TRUE, old_name |-> xml_path,
                            new_name |-> new_filename,
                            disk |-> IF dry_run THEN fs
                                     ELSE RenamePath(fs, xml_path, new_filename),
                            used_names |-> used \cup {new_filename}]

\* the line printed for one file
RenameLogEntry(result, dry_run) ==
    [file |-> result.old_name,
     new_name |-> result.new_name,
     outcome |-> IF result.raised THEN "error"
                 ELSE IF ~result.success THEN "unchanged"
                 ELSE IF dry_run THEN "dry_run" ELSE "changed"]

\* main with --file
RenameFile ==
    /\ pc = "main"
    /\ mode = "rename"
    /\ options.target = "file"
    /\ LET result == rename_xml_file(disk, {}, options.file, options.dry_run, options.force)
       IN  /\ disk' = result.disk
           /\ log' = Append(log, RenameLogEntry(result, options.dry_run))
           /\ exit_code' = IF result.raised THEN 1 ELSE 0
    /\ pc' = "done"
    /\ UNCHANGED <<mode, searchvars, options, todo, used_names, preview>>

\* process_directory up to the loop: the files are listed once
RenameListFiles ==
    /\ pc = "main"
    /\ mode = "rename"
    /\ options.target = "directory"
    /\ IF XmlFiles(disk) = {}
       THEN /\ pc' = "done"
            /\ exit_code' = 0
            /\ UNCHANGED todo
       ELSE /\ \E xml_files_found \in Orders(XmlFiles(disk)) : todo' = xml_files_found
            /\ pc' = "loop"
            /\ UNCHANGED exit_code
    /\ used_names' = {}
    /\ UNCHANGED <<mode, searchvars, options, disk, log, preview>>

\* one iteration of the loop of process_directory; the summary follows the last
RenameNext ==
    /\ pc = "loop"
    /\ mode = "rename"
    /\ LET result == rename_xml_file(disk, used_names, Head(todo),
                                     options.dry_run, options.force)
       IN  /\ disk' = result.disk
           /\ used_names' = result.used_names
           /\ log' = Append(log, RenameLogEntry(result, options.dry_run))
    /\ todo' = Tail(todo)
    /\ IF Tail(todo) = <<>>
       THEN pc' = "done" /\ exit_code' = 0
       ELSE UNCHANGED <<pc, exit_code>>
    /\ UNCHANGED <<mode, searchvars, options, preview>>

(***************************************************************************)
(* remove_tags_from_xml.py                                                 *)
(***************************************************************************)
\* Path(xml_path).with_suffix('.xml.bak')
BackupPath(xml_path) == xml_path \o BakSuffix

\* the file at path is created or overwritten
WriteFile(fs, path, content) ==
    [name \in DOMAIN fs \cup {path} |-> IF name = path THEN content ELSE fs[name]]

\* question.find('tags') is not None for some question
HasTags(content) ==
    \E k \in 1..Len(content.questions) : content.questions[k].tags

\* question.remove(tags_elem) for every question; tree.write serializes the
\* tree without CDATA sections
WithoutTags(content) ==
    [content EXCEPT !.questions =
        [k \in 1..Len(content.questions) |->
            [content.questions[k] EXCEPT
                !.tags = FALSE,
                !.text = IF @ = "cdata" THEN "plain" ELSE @,
                !.code = "none"]]]

\* an exception (missing file, parse error) is caught and False returned
remove_tags_from_xml(fs, xml_path, backup) ==
    IF xml_path \notin DOMAIN fs \/ fs[xml_path].status # "ok"
    THEN [modified |-> FALSE, disk |-> fs]
    ELSE IF HasTags(fs[xml_path])
    THEN [modified |-> TRUE,
          disk |-> WriteFile(IF backup
                             THEN RenamePath(fs, xml_path, BackupPath(xml_path))
                             ELSE fs,
                             xml_path, WithoutTags(fs[xml_path]))]
    ELSE [modified |-> FALSE, disk |-> fs]

\* a line of output about one file
LogEntry(file, outcome) == [file |-> file, new_name |-> <<>>, outcome |-> outcome]

\* main with --file: with --dry-run the file is named without being read
RemoveTagsFile ==
    /\ pc = "main"
    /\ mode = "remove_tags"
    /\ options.target = "file"
    /\ IF options.dry_run
       THEN /\ log' = Append(log, LogEntry(options.file, "dry_run"))
            /\ UNCHANGED disk
       ELSE LET result == remove_tags_from_xml(disk, options.file, options.backup)
            IN  /\ disk' = result.disk
                /\ log' = Append(log, LogEntry(options.file,
                                               IF result.modified THEN "changed"
                                               ELSE "unchanged"))
    /\ pc' = "done"
    /\ exit_code' = 0
    /\ UNCHANGED <<mode, searchvars, options, todo, used_names, preview>>

\* process_directory of the three utilities that rewrite files, up to the loop
ToolListFiles ==
    /\ pc = "main"
    /\ mode \in {"remove_tags", "ensure_cdata", "convert_code_blocks"}
    /\ options.target = "directory"
    /\ LET found == IF options.xml THEN XmlFiles(disk) ELSE {}
       IN  IF found = {}
           THEN /\ pc' = "done"
                /\ exit_code' = 0
                /\ UNCHANGED todo
           ELSE /\ \E files \in Orders(found) : todo' = files
                /\ pc' = "loop"
                /\ UNCHANGED exit_code
    /\ UNCHANGED <<mode, searchvars, options, disk, used_names, log, preview>>

\* the loop of process_directory moves on; the summary follows the last file
LoopAdvance ==
    /\ todo' = Tail(todo)
    /\ IF Tail(todo) = <<>>
       THEN pc' = "done" /\ exit_code' = 0
       ELSE UNCHANGED <<pc, exit_code>>

\* one iteration of the loop of process_directory
RemoveTagsNext ==
    /\ pc = "loop"
    /\ mode = "remove_tags"
    /\ LET xml_file == Head(todo)
       IN  IF disk[xml_file].status # "ok"
           THEN /\ log' = Append(log, LogEntry(xml_file, "error"))
                /\ UNCHANGED disk
           ELSE IF ~HasTags(disk[xml_file])
           THEN /\ log' = Append(log, LogEntry(xml_file, "unchanged"))
                /\ UNCHANGED disk
           ELSE IF options.dry_run
           THEN /\ log' = Append(log, LogEntry(xml_file, "dry_run"))
                /\ UNCHANGED disk
           ELSE LET result == remove_tags_from_xml(disk, xml_file, options.backup)
                IN  /\ disk' = result.disk
                    /\ log' = IF result.modified
                              THEN Append(log, LogEntry(xml_file, "changed"))
                              ELSE log
    /\ LoopAdvance
    /\ UNCHANGED <<mode, searchvars, options, used_names, preview>>

(***************************************************************************)
(* ensure_cdata_in_text_blocks.py and convert_code_blocks_chars.py         *)
(***************************************************************************)
\* the number of elements of a sequence that satisfy a test
CountWhere(seq, Test(_)) == Len(SelectSeq(seq, Test))

\* every <text> block with content and without CDATA is wrapped
ensure_cdata_in_text_blocks(content) ==
    [content |-> [content EXCEPT !.questions =
                     [k \in 1..Len(content.questions) |->
                         [content.questions[k] EXCEPT
                             !.text = IF @ = "plain" THEN "cdata" ELSE @]]],
     modified_count |-> CountWhere(content.questions, LAMBDA q : q.text = "plain")]

\* process_xml_cdata: the code blocks inside CDATA sections are converted
process_xml_cdata(content, to_normal) ==
    LET from == IF to_normal THEN "fullwidth" ELSE "normal"
        to == IF to_normal THEN "normal" ELSE "fullwidth"
    IN  [content |-> [content EXCEPT !.questions =
                         [k \in 1..Len(content.questions) |->
                             [content.questions[k] EXCEPT
                                 !.code = IF @ = from THEN to ELSE @]]],
         modified_count |-> CountWhere(content.questions, LAMBDA q : q.code = from)]

\* what the utility of this run does to the text of a file
Converted(content) ==
    IF mode = "ensure_cdata" THEN ensure_cdata_in_text_blocks(content)
    ELSE process_xml_cdata(content, options.to_normal)

\* process_xml_file / process_file: read, convert, and unless --dry-run write
\* the backup and the file; an exception is printed and raised again
process_file(fs, file_path, backup, dry_run) ==
    IF file_path \notin DOMAIN fs
    THEN [raised |-> TRUE, blocks |-> 0, disk |-> fs]
    ELSE LET converted == Converted(fs[file_path])
         IN  IF converted.modified_count > 0 /\ ~dry_run
             THEN [raised |-> FALSE, blocks |-> converted.modified_count,
                   disk |-> WriteFile(IF backup
                                      THEN WriteFile(fs, BackupPath(file_path), fs[file_path])
                                      ELSE fs,
                                      file_path, converted.content)]
             ELSE [raised |-> FALSE, blocks |-> converted.modified_count, disk |-> fs]

\* the line printed about a processed file
ConvertLogEntry(file, result, dry_run) ==
    LogEntry(file, IF result.raised THEN "error"
                   ELSE IF result.blocks = 0 THEN "unchanged"
                   ELSE IF dry_run THEN "dry_run" ELSE "changed")

\* main with --file
ConvertFile ==
    /\ pc = "main"
    /\ mode \in {"ensure_cdata", "convert_code_blocks"}
    /\ options.target = "file"
    /\ LET result == process_file(disk, options.file, options.backup, options.dry_run)
       IN  /\ disk' = result.disk
           /\ log' = Append(log, ConvertLogEntry(options.file, result, options.dry_run))
           /\ exit_code' = IF result.raised THEN 1 ELSE 0
    /\ pc' = "done"
    /\ UNCHANGED <<mode, searchvars, options, todo, used_names, preview>>

\* one iteration of the loop of process_directory
ConvertNext ==
    /\ pc = "loop"
    /\ mode \in {"ensure_cdata", "convert_code_blocks"}
    /\ LET result == process_file(disk, Head(todo), options.backup, options.dry_run)
       IN  /\ disk' = result.disk
           /\ log' = Append(log, ConvertLogEntry(Head(todo), result, options.dry_run))
    /\ LoopAdvance
    /\ UNCHANGED <<mode, searchvars, options, used_names, preview>>

\* "Para aplicar los cambios, ejecute sin --dry-run": the same command is run
\* again on the same directory, and the output of the dry run is kept
RunForReal ==
    /\ pc = "done"
    /\ mode \in {"rename", "remove_tags", "ensure_cdata", "convert_code_blocks"}
    /\ options.dry_run
    /\ ~preview.taken
    /\ preview' = [taken |-> TRUE, log |-> log, exit_code |-> exit_code, disk |-> disk]
    /\ options' = [options EXCEPT !.dry_run = FALSE]
    /\ log' = <<>>
    /\ todo' = <<>>
    /\ used_names' = {}
    /\ pc' = "main"
    /\ exit_code' = 0 - 1
    /\ UNCHANGED <<mode, searchvars, disk>>

(***************************************************************************)
(* Directories the file utilities run on                                   *)
(***************************************************************************)
MaxDiskFiles == 2

StemAbC == <<"a", "b", "_", "c">>
NameAbC == StemAbC \o XmlSuffix
NameAbC1 == Candidate(StemAbC, 1)
NameQ1 == <<"q", "1">> \o XmlSuffix
NameE == <<"e">> \o XmlSuffix
FileNames == {NameAbC, NameAbC1, NameQ1, NameE}

\* "Ab c" -> ab_c, with tags, a bare <text> block and fullwidth code
DocAbC == Parsed(<<Question(<<"A", "b", " ", "c">>, TRUE, "plain", "fullwidth")>>)
\* " ab  c?" -> ab_c as well, nothing to change
DocAbC2 ==
    Parsed(<<Question(<<" ", "a", "b", " ", " ", "c", "?">>, FALSE, "cdata", "normal")>>)
\* "é-" -> e
DocE == Parsed(<<Question(<<"é", "-">>, FALSE, "blank", "none")>>)
\* a quiz without questions
DocNoQuestion == Parsed(<<>>)
FileDocs == {DocAbC, DocAbC2, DocE, DocNoQuestion, Malformed}

\* a directory in which the plain name ab_c.xml and the suffixes __1 ..
\* __(taken - 1) exist, next to q1.xml whose question is named "Ab c"
CrowdedDisk(taken) ==
    [name \in {NameQ1, NameAbC} \cup {Candidate(StemAbC, k) : k \in 1..(taken - 1)} |->
        IF name = NameQ1 THEN DocAbC ELSE Malformed]

\* the similarity search does not run
SearchIdle ==
    /\ threshold = 0
    /\ hashSeed = 0
    /\ xml_files = 0
    /\ source = <<>>
    /\ questions = <<>>
    /\ idf = <<>>
    /\ vectors = <<>>
    /\ i = 0
    /\ j = 1
    /\ similar_pairs = <<>>
    /\ compared = <<>>
    /\ stats = [total_files |-> 0, valid_files |-> 0, invalid_files |-> 0]
    /\ base_path = "unset"
    /\ summary = NoSummary

\* rename_xml_files_by_question_name.py -f FILE or -d DIR, [--dry-run] [--force]
InitRename ==
    /\ mode = "rename"
    /\ pc = "main"
    /\ exit_code = 0 - 1
    /\ SearchIdle
    /\ \E target \in {"file", "directory"}, file \in FileNames, dry_run, force \in BOOLEAN :
          /\ target = "directory" => file = NameQ1
          /\ options = [target |-> target,
                        file |-> IF target = "file" THEN file ELSE <<>>,
                        dry_run |-> dry_run, force |-> force, backup |-> FALSE]
    /\ \/ \E present \in SUBSET FileNames :
             /\ Cardinality(present) <= MaxDiskFiles
             /\ disk \in [present -> FileDocs]
       \/ /\ options.target = "file"
          /\ options.file = NameQ1
          /\ \E taken \in {CollisionLimit - 1, CollisionLimit, CollisionLimit + 1} :
                disk = CrowdedDisk(taken)
    /\ todo = <<>>
    /\ used_names = {}
    /\ log = <<>>
    /\ preview = NoPreview

NextRename ==
    \/ RenameFile
    \/ RenameListFiles
    \/ RenameNext
    \/ RunForReal

SpecRename == InitRename /\ [][NextRename]_vars

\* remove_tags_from_xml.py, ensure_cdata_in_text_blocks.py and
\* convert_code_blocks_chars.py: -f FILE or -d DIR, [--dry-run] [--no-backup],
\* and for the last [-e xml] [--to-fullwidth]
InitRewrite ==
    /\ mode \in {"remove_tags", "ensure_cdata", "convert_code_blocks"}
    /\ pc = "main"
    /\ exit_code = 0 - 1
    /\ SearchIdle
    /\ \E target \in {"file", "directory"}, file \in FileNames,
          dry_run, backup, xml, to_normal \in BOOLEAN :
          /\ target = "directory" => file = NameQ1
          /\ mode # "convert_code_blocks" => (xml /\ to_normal)
          /\ target = "file" => xml
          /\ options = [target |-> target,
                        file |-> IF target = "file" THEN file ELSE <<>>,
                        dry_run |-> dry_run, force |-> FALSE, backup |-> backup,
                        xml |-> xml, to_normal |-> to_normal]
    /\ \E present \in SUBSET FileNames :
          /\ Cardinality(present) <= MaxDiskFiles
          /\ disk \in [present -> FileDocs]
    /\ todo = <<>>
    /\ used_names = {}
    /\ log = <<>>
    /\ preview = NoPreview

\* the four utilities that take --dry-run
InitTools == InitRename \/ InitRewrite

NextTools ==
    \/ RenameFile
    \/ RenameListFiles
    \/ RenameNext
    \/ RemoveTagsFile
    \/ ToolListFiles
    \/ RemoveTagsNext
    \/ ConvertFile
    \/ ConvertNext
    \/ RunForReal

SpecTools == InitTools /\ [][NextTools]_vars

(***************************************************************************)
(* Properties                                                              *)
(***************************************************************************)
PairOf(triple) == <<triple[1], triple[2]>>
LoopFinished == pc \in {"sort", "report", "done"}
IndexPairs(n) == {p \in (0..(n - 1)) \X (0..(n - 1)) : p[1] < p[2]}
TimesCompared(p) == Cardinality({k \in 1..Len(compared) : PairOf(compared[k]) = p})

\* C1: once the pair loop has ended, every index pair i < j of the loaded
\* questions has been compared exactly once and nothing else has; a triple is
\* in the pair list iff its similarity is >= the threshold; and at every moment
\* each listed triple has 0 <= i < j < number of questions.
C1_PairEnumeration ==
    /\ \A k \in 1..Len(similar_pairs) :
          /\ 0 <= similar_pairs[k][1]
          /\ similar_pairs[k][1] < similar_pairs[k][2]
          /\ similar_pairs[k][2] < Len(questions)
    /\ Range(similar_pairs) \subseteq Range(compared)
    /\ LoopFinished =>
          /\ \A p \in IndexPairs(Len(questions)) : TimesCompared(p) = 1
          /\ Len(compared) = Cardinality(IndexPairs(Len(questions)))
          /\ \A k \in 1..Len(compared) :
                (compared[k] \in Range(similar_pairs)) <=> (compared[k][3] >= threshold)

C1_Witness ==
    /\ pc = "done"
    /\ mode = "directory"
    /\ Len(questions) >= 3
    /\ similar_pairs # <<>>
    /\ Len(similar_pairs) < Len(compared)

\* C2: the returned pair list is in non-increasing order of similarity, and
\* triples of equal similarity stand in the order of the loop, that is in
\* lexicographic order of (i, j).
C2_SortedStable ==
    pc \in {"report", "done"} =>
        \A a, b \in 1..Len(similar_pairs) :
            a < b =>
                /\ similar_pairs[a][3] >= similar_pairs[b][3]
                /\ similar_pairs[a][3] = similar_pairs[b][3] =>
                      \/ similar_pairs[a][1] < similar_pairs[b][1]
                      \/ /\ similar_pairs[a][1] = similar_pairs[b][1]
                         /\ similar_pairs[a][2] < similar_pairs[b][2]

\* the sort moved a later pair ahead of an earlier one, and there is a tie
C2_Witness ==
    /\ pc = "done"
    /\ \E a, b \in 1..Len(similar_pairs) :
          /\ a < b
          /\ similar_pairs[a][3] > similar_pairs[b][3]
          /\ similar_pairs[a][1] > similar_pairs[b][1]
    /\ \E a, b \in 1..Len(similar_pairs) :
          a < b /\ similar_pairs[a][3] = similar_pairs[b][3]

\* C4: with a threshold below 0.0 or above 1.0 no file is ever read, no IDF
\* table, vector or similarity is computed and no pair is listed; the run is
\* at its start or has ended with a non-zero exit status.
C4_InvalidThresholdRejected ==
    (threshold < 0 \/ threshold > Scale) =>
        /\ source = <<>>
        /\ questions = <<>>
        /\ idf = <<>>
        /\ vectors = <<>>
        /\ compared = <<>>
        /\ similar_pairs = <<>>
        /\ stats.total_files = 0
        /\ pc \in {"main", "error"}
        /\ pc = "error" => exit_code \in {1, 2}

C4_Witness ==
    /\ pc = "error"
    /\ threshold < 0
    /\ exit_code = 2

\* C5: when fewer than two questions are loaded, the pair search makes no
\* comparison, lists no pair and does not fail: the run goes on to exit
\* status 0.
C5_SmallCorpus ==
    (pc \in {"idf", "vectors", "compare", "sort", "report", "find_duplicates", "done"}
        /\ Len(questions) < 2) =>
            /\ compared = <<>>
            /\ similar_pairs = <<>>
            /\ pc # "compare"
            /\ pc = "done" => exit_code = 0
            /\ pc # "done" => exit_code = 0 - 1

C5_Witness ==
    /\ pc = "done"
    /\ mode = "analyzer"
    /\ Len(questions) = 1
    /\ exit_code = 0

PairSet(pairs) == {PairOf(pairs[k]) : k \in 1..Len(pairs)}

\* C3: for the loaded corpus, the pairs retained at a threshold at or above
\* the one of the run are among the pairs the run retained, and the pairs of the
\* run are among those retained at a threshold at or below it.
C3_ThresholdMonotone ==
    (pc = "done" /\ mode # "analyzer") =>
        \A t \in ProbeThresholds :
            LET at_t == PairSet(FindSimilarAmong(vectors, t, hashSeed))
            IN  /\ t >= threshold => at_t \subseteq PairSet(similar_pairs)
                /\ t <= threshold => PairSet(similar_pairs) \subseteq at_t

\* a higher threshold keeps some of the pairs of the run and drops others
C3_Witness ==
    /\ pc = "done"
    /\ mode = "file"
    /\ threshold = 0
    /\ \E t \in ProbeThresholds :
          LET at_t == PairSet(FindSimilarAmong(vectors, t, hashSeed))
          IN  at_t # {} /\ at_t # PairSet(similar_pairs)

QualifyingTokens(text) == {w \in Range(Split(text)) : Len(w) > 2}

\* one unit in the last place of a value next to 1.0
UlpAtOne == Pow2(ScaleBits + 1 - MantissaBits)
RoundingSlack == 4 * UlpAtOne

\* C6: two loaded questions with the same normalized text that has a token
\* longer than two characters are given a similarity within rounding of 1.0;
\* the pair counts as an exact duplicate, and it is in the pair list once the
\* loop has ended whenever the threshold of the run is at most 0.99.
C6_IdenticalTexts ==
    mode # "analyzer" =>
        \A k \in 1..Len(compared) :
            LET a == compared[k][1] + 1
                b == compared[k][2] + 1
                similarity == compared[k][3]
            IN  (questions[a].text = questions[b].text
                    /\ QualifyingTokens(questions[a].text) # {}) =>
                        /\ Abs(similarity - Scale) <= RoundingSlack
                        /\ ExactDuplicate(similarity)
                        /\ similarity >= FromRatio(99, 100)
                        /\ (LoopFinished /\ threshold <= FromRatio(99, 100)) =>
                              compared[k] \in Range(similar_pairs)

\* two questions with different raw text and the same normalized text are
\* retained at threshold 0.99 in a corpus of three
C6_Witness ==
    /\ pc = "done"
    /\ mode = "file"
    /\ threshold = FromRatio(99, 100)
    /\ Len(questions) >= 3
    /\ \E k \in 1..Len(similar_pairs) :
          LET a == similar_pairs[k][1] + 1
              b == similar_pairs[k][2] + 1
          IN  /\ questions[a].text = questions[b].text
              /\ questions[a].full_text # questions[b].full_text

\* the files read, each question given another display name
Rename(info, variant) ==
    [info EXCEPT !.name = CASE variant = 1 -> <<>>
                            [] variant = 2 -> Wabc \o <<" ">> \o Wxyz
                            [] OTHER -> info.text \o <<" ">> \o Wdcb]

RenameFiles(files, variant) ==
    [f \in 1..Len(files) |->
        [status |-> files[f].status,
         elems |-> [e \in 1..Len(files[f].elems) |-> Rename(files[f].elems[e], variant)]]]

\* the question list the loading loop builds from the files read so far
RECURSIVE LoadedFrom(_, _)
LoadedFrom(files, f) ==
    IF f > Len(files) THEN <<>>
    ELSE (IF files[f].status = "ok" THEN QuestionsOf(files[f].elems, f, 0) ELSE <<>>)
         \o LoadedFrom(files, f + 1)

VectorsOf(texts) == VectorsWith(texts, compute_idf(texts))

\* C7: had every question another display name, the run would have loaded the
\* same questions with the same normalized texts, built the same vectors and
\* returned the same ordered pair list.
C7_NameNonInterference ==
    mode # "analyzer" =>
        \A variant \in 1..3 :
            /\ pc \in {"load", "idf", "report"} =>
                  Texts(LoadedFrom(RenameFiles(source, variant), 1)) = Texts(questions)
            /\ pc = "sort" =>
                  VectorsOf(Texts(LoadedFrom(RenameFiles(source, variant), 1))) = vectors
            /\ pc = "done" =>
                  FindSimilar(Texts(LoadedFrom(RenameFiles(source, variant), 1)),
                              threshold, hashSeed) = similar_pairs

C7_Witness ==
    /\ pc = "done"
    /\ mode = "file"
    /\ similar_pairs # <<>>
    /\ \E a, b \in 1..Len(questions) :
          /\ questions[a].info.name # questions[b].info.name
          /\ QualifyingTokens(questions[a].info.name) # {}

\* C8: the pair list a run returns is the one any run on the same questions
\* and threshold returns, whatever string hash seed the process was given.
C8_Deterministic ==
    (pc = "done" /\ mode # "analyzer") =>
        \A seed \in HashSeeds :
            FindSimilar(Texts(questions), threshold, seed) = similar_pairs

\* C9: a loaded question none of whose tokens is longer than two characters
\* has the empty vector, has similarity 0 in every comparison it takes part
\* in, is retained at no threshold above 0 and is in no pair of the list when
\* the threshold of the run is above 0.
C9_DegenerateDocument ==
    mode # "analyzer" =>
        \A d \in 1..Len(questions) :
            QualifyingTokens(questions[d].text) = {} =>
                /\ vectors # <<>> => vectors[d] = <<>>
                /\ \A k \in 1..Len(compared) :
                      (d - 1) \in {compared[k][1], compared[k][2]} =>
                          /\ compared[k][3] = 0
                          /\ \A t \in ProbeThresholds :
                                t > 0 => ~Retained(compared[k][3], t)
                /\ threshold > 0 =>
                      \A k \in 1..Len(similar_pairs) :
                          (d - 1) \notin {similar_pairs[k][1], similar_pairs[k][2]}

C9_Witness ==
    /\ pc = "done"
    /\ mode = "file"
    /\ threshold > 0
    /\ similar_pairs # <<>>
    /\ \E d \in 1..Len(questions) :
          /\ QualifyingTokens(questions[d].text) = {}
          /\ \E k \in 1..Len(compared) : compared[k][1] = d - 1

\* C10: two loaded questions that share no token longer than two characters
\* have similarity exactly 0, are retained at no threshold above 0, and are
\* not in the pair list when the threshold of the run is above 0.
C10_DisjointTokens ==
    mode # "analyzer" =>
        \A k \in 1..Len(compared) :
            LET a == compared[k][1] + 1
                b == compared[k][2] + 1
            IN  QualifyingTokens(questions[a].text) \cap QualifyingTokens(questions[b].text) = {} =>
                    /\ compared[k][3] = 0
                    /\ \A t \in ProbeThresholds : t > 0 => ~Retained(compared[k][3], t)
                    /\ threshold > 0 => compared[k] \notin Range(similar_pairs)

\* both questions have tokens, none in common
C10_Witness ==
    /\ pc = "done"
    /\ threshold > 0
    /\ \E k \in 1..Len(compared) :
          LET a == compared[k][1] + 1
              b == compared[k][2] + 1
          IN  /\ QualifyingTokens(questions[a].text) # {}
              /\ QualifyingTokens(questions[b].text) # {}
              /\ QualifyingTokens(questions[a].text) \cap QualifyingTokens(questions[b].text) = {}

\* C11: in find_similar_questions with threshold 0.0 no similarity is
\* negative, so once the pair loop has ended the list holds every one of the
\* n(n-1)/2 index pairs, those of similarity 0 included, and the returned list
\* is in non-increasing order of similarity.
C11_ThresholdZero ==
    (mode # "analyzer" /\ threshold = 0) =>
        /\ \A k \in 1..Len(compared) : compared[k][3] >= 0
        /\ LoopFinished =>
              /\ PairSet(similar_pairs) = IndexPairs(Len(questions))
              /\ Len(similar_pairs) = (Len(questions) * (Len(questions) - 1)) \div 2
              /\ Range(similar_pairs) = Range(compared)
        /\ pc \in {"report", "done"} =>
              \A k \in 1..(Len(similar_pairs) - 1) :
                  similar_pairs[k][3] >= similar_pairs[k + 1][3]

\* a corpus of three or more, with overlapping and with unrelated questions
C11_Witness ==
    /\ pc = "done"
    /\ mode # "analyzer"
    /\ threshold = 0
    /\ Len(questions) >= 3
    /\ \E k \in 1..Len(similar_pairs) : similar_pairs[k][3] = 0
    /\ \E k \in 1..Len(similar_pairs) : similar_pairs[k][3] > 0

\* the two vectors of a comparison of the pair loop
FirstVector(triple) == vectors[triple[1] + 1]
SecondVector(triple) == vectors[triple[2] + 1]

\* C12: every comparison in which one of the two vectors is empty or has
\* magnitude 0 gave exactly 0, and in every other comparison the divisor
\* mag1 * mag2 was not 0; this holds in find_similar_questions and in
\* QuestionAnalyzer.
C12_EmptyVectorZero ==
    pc = "sort" =>
        \A k \in 1..Len(compared) :
            LET vec1 == FirstVector(compared[k])
                vec2 == SecondVector(compared[k])
            IN  IF vec1 = <<>> \/ vec2 = <<>> \/ Magnitude(vec1) = 0 \/ Magnitude(vec2) = 0
                THEN compared[k][3] = 0
                ELSE FMul(Magnitude(vec1), Magnitude(vec2)) # 0

\* two vectors with common words whose weights are all 0 have been compared
C12_Witness ==
    /\ pc = "sort"
    /\ \E k \in 1..Len(compared) :
          LET vec1 == FirstVector(compared[k])
              vec2 == SecondVector(compared[k])
          IN  /\ Keys(vec1) \cap Keys(vec2) # {}
              /\ Magnitude(vec1) = 0
              /\ compared[k][3] = 0

\* C13: every comparison of the pair loop would have given the same
\* similarity with its two vectors exchanged.
C13_Symmetric ==
    pc = "sort" =>
        \A k \in 1..Len(compared) :
            cosine_similarity(SecondVector(compared[k]), FirstVector(compared[k]), hashSeed)
                = compared[k][3]

\* C14: every similarity the pair loop computed is at least 0 and at most
\* 1.0 plus rounding slack, in find_similar_questions and in QuestionAnalyzer
\* (whose weights may be negative); the dot product is not negative and does
\* not exceed the product of the magnitudes by more than the slack.
C14_Bounds ==
    /\ \A k \in 1..Len(compared) :
          0 <= compared[k][3] /\ compared[k][3] <= Scale + RoundingSlack
    /\ pc = "sort" =>
          \A k \in 1..Len(compared) :
              LET vec1 == FirstVector(compared[k])
                  vec2 == SecondVector(compared[k])
                  dot_product == DotProduct(vec1, vec2, CommonWords(vec1, vec2, hashSeed))
              IN  /\ dot_product >= 0
                  /\ dot_product <= FMul(Magnitude(vec1), Magnitude(vec2)) + RoundingSlack

\* vectors with negative weights have a similarity above 0
C14_Witness ==
    /\ pc = "sort"
    /\ mode = "analyzer"
    /\ \E k \in 1..Len(compared) :
          /\ \E w \in 1..Len(FirstVector(compared[k])) : FirstVector(compared[k])[w][2] < 0
          /\ compared[k][3] > 0
          /\ compared[k][3] < Scale - RoundingSlack

\* C15: every non-empty vector find_similar_questions builds for a loaded
\* question has only positive weights and a magnitude above 0, and its
\* similarity with itself is within rounding of 1.0.
C15_SelfSimilarity ==
    (pc = "sort" /\ mode # "analyzer") =>
        \A d \in 1..Len(vectors) :
            vectors[d] # <<>> =>
                /\ \A w \in 1..Len(vectors[d]) : vectors[d][w][2] > 0
                /\ Magnitude(vectors[d]) > 0
                /\ Abs(cosine_similarity(vectors[d], vectors[d], hashSeed) - Scale)
                      <= RoundingSlack

\* a vector of three words with unequal weights
C15_Witness ==
    /\ pc = "sort"
    /\ mode # "analyzer"
    /\ \E d \in 1..Len(vectors) :
          /\ Len(vectors[d]) >= 3
          /\ vectors[d][1][2] # vectors[d][2][2]

\* the number of loaded questions in which a word is a qualifying token
DocumentFrequency(word) ==
    Cardinality({k \in 1..Len(questions) : word \in QualifyingTokens(questions[k].text)})

\* C16: the IDF table of find_similar_questions has an entry for exactly the
\* qualifying tokens of the loaded questions; the document frequency of each
\* is between 1 and N, a token repeated in one question counting once; its
\* weight is log((N + 1) / (count + 1)) + 1, which is at least 1.0, and is
\* exactly 1.0 for a token found in every question.
C16_IdfPositive ==
    (pc = "vectors" /\ mode # "analyzer") =>
        /\ DOMAIN idf = UNION {QualifyingTokens(questions[k].text) : k \in 1..Len(questions)}
        /\ \A word \in DOMAIN idf :
              LET count == DocumentFrequency(word)
                  num_docs == Len(questions)
              IN  /\ 1 <= count /\ count <= num_docs
                  /\ idf[word] > 0
                  /\ idf[word] >= FromInt(1)
                  /\ idf[word] = FAdd(FLog(FDiv(FromInt(num_docs + 1), FromInt(count + 1))),
                                      FromInt(1))
                  /\ count = num_docs => idf[word] = FromInt(1)

\* a corpus of one question in which a word occurs twice
C16_Witness ==
    /\ pc = "vectors"
    /\ mode = "file"
    /\ Len(questions) = 1
    /\ \E word \in DOMAIN idf :
          Cardinality({k \in 1..Len(Split(questions[1].text)) :
                          Split(questions[1].text)[k] = word}) >= 2

\* C17: in file mode and in directory mode every step keeps to this order:
\* the questions change only while no table and no vector exists; the IDF
\* table is computed in one step, entered once from the loading of the last
\* file, from the texts of all loaded questions; the vectors are built in one
\* later step, each from that table, so every key of a vector is in the table
\* and no weight is the default 0; and no comparison changes table or vectors.
C17_OneIdfTable ==
    [][mode # "analyzer" =>
        /\ questions' # questions => (pc = "load" /\ idf = <<>> /\ vectors = <<>>)
        /\ pc' = "idf" => (pc = "load" /\ Len(source') = xml_files)
        /\ pc = "idf" =>
              /\ pc' = "vectors"
              /\ vectors = <<>>
              /\ idf' = compute_idf(Texts(questions))
        /\ idf' # idf => pc = "idf"
        /\ vectors' # vectors =>
              /\ pc = "vectors"
              /\ idf' = idf
              /\ Len(vectors') = Len(questions)
              /\ \A d \in 1..Len(questions) :
                    /\ vectors'[d] = compute_tfidf_vector(questions[d].text, idf)
                    /\ Keys(vectors'[d]) \subseteq DOMAIN idf
                    /\ \A w \in 1..Len(vectors'[d]) : vectors'[d][w][2] # 0
        /\ pc = "compare" => (idf' = idf /\ vectors' = vectors /\ questions' = questions)
    ]_vars

\* vectors built for the questions of two files of a directory
C17_Witness ==
    /\ pc = "sort"
    /\ mode = "directory"
    /\ \E a, b \in 1..Len(questions) :
          /\ questions[a].file = 1
          /\ questions[b].file = 2
          /\ vectors[a] # <<>>
          /\ Keys(vectors[b]) \ Keys(vectors[a]) # {}

\* the positions of the tokens longer than two characters in a split text
QualifyingPositions(tokens) == {k \in 1..Len(tokens) : Len(tokens[k]) > 2}

\* C18: the vector of a loaded question is empty iff its text has no token
\* longer than two characters; otherwise its keys are, once each, exactly the
\* distinct tokens longer than two characters, and the weight of a key is
\* (count / total) * idf, where count is the number of occurrences of the
\* token and total the number of occurrences of all such tokens; the term
\* frequencies add up to 1.0 within rounding.
C18_VectorShape ==
    (pc = "sort" /\ mode # "analyzer") =>
        \A d \in 1..Len(vectors) :
            LET tokens == Split(questions[d].text)
                total == Cardinality(QualifyingPositions(tokens))
                count(word) ==
                    Cardinality({k \in QualifyingPositions(tokens) : tokens[k] = word})
                vec == vectors[d]
            IN  /\ (vec = <<>>) <=> (total = 0)
                /\ Keys(vec) = QualifyingTokens(questions[d].text)
                /\ Len(vec) = Cardinality(Keys(vec))
                /\ \A w \in 1..Len(vec) :
                      /\ Len(vec[w][1]) > 2
                      /\ count(vec[w][1]) >= 1
                      /\ vec[w][2] = FMul(FDiv(FromInt(count(vec[w][1])), FromInt(total)),
                                          idf[vec[w][1]])
                /\ vec # <<>> =>
                      Abs(SumFloats([w \in 1..Len(vec) |->
                                        FDiv(FromInt(count(vec[w][1])), FromInt(total))], 0)
                          - Scale) <= RoundingSlack

\* a text with short tokens, a repeated long token and another long token
C18_Witness ==
    /\ pc = "sort"
    /\ mode = "file"
    /\ \E d \in 1..Len(vectors) :
          LET tokens == Split(questions[d].text)
          IN  /\ \E k \in 1..Len(tokens) : Len(tokens[k]) <= 2
              /\ Len(vectors[d]) >= 2
              /\ Cardinality(QualifyingPositions(tokens)) > Len(vectors[d])

\* the characters clean_text keeps as they are
KeptChars == LowerLetters \cup AccentedLetters \cup Digits

\* the maximal runs of kept characters of a lowered text, in order
RECURSIVE KeptRunsFrom(_, _)
KeptRunsFrom(text, run) ==
    IF text = <<>> THEN (IF run = <<>> THEN <<>> ELSE <<run>>)
    ELSE IF LowerChar(Head(text)) \in KeptChars
         THEN KeptRunsFrom(Tail(text), Append(run, LowerChar(Head(text))))
         ELSE (IF run = <<>> THEN <<>> ELSE <<run>>) \o KeptRunsFrom(Tail(text), <<>>)

KeptRuns(text) == KeptRunsFrom(text, <<>>)

C20_Classification ==
    (pc = "done" /\ mode = "directory" /\ similar_pairs # <<>>) =>
        LET first(k) == questions[similar_pairs[k][1] + 1]
            second(k) == questions[similar_pairs[k][2] + 1]
            cross == {k \in 1..Len(similar_pairs) : first(k).file # second(k).file}
            same == {k \in 1..Len(similar_pairs) : first(k).file = second(k).file}
            exact == {k \in 1..Len(similar_pairs) :
                         similar_pairs[k][3] >= FromRatio(99, 100)}
        IN  /\ summary.by_file
            /\ summary.cross_file_pairs = Cardinality(cross)
            /\ summary.same_file_pairs = Cardinality(same)
            /\ summary.cross_file_pairs + summary.same_file_pairs = Len(similar_pairs)
            /\ summary.exact_dups = Cardinality(exact)

\* pairs between files and within a file, exact duplicates and weaker pairs
C20_Witness ==
    /\ pc = "done"
    /\ mode = "directory"
    /\ summary.cross_file_pairs > 0
    /\ summary.same_file_pairs > 0
    /\ summary.exact_dups > 0
    /\ summary.exact_dups < Len(similar_pairs)

\* C21: when at least one pair is retained the reported count is the number
\* of retained pairs, the reported maximum is the largest and the reported
\* minimum the smallest similarity of the retained pairs; when no pair is
\* retained no statistic is computed.
C21_AggregateStatistics ==
    pc = "done" =>
        IF similar_pairs # <<>>
        THEN /\ summary.statistics
             /\ summary.pairs = Len(similar_pairs)
             /\ \E k \in 1..Len(similar_pairs) : summary.maximum = similar_pairs[k][3]
             /\ \A k \in 1..Len(similar_pairs) : summary.maximum >= similar_pairs[k][3]
             /\ \E k \in 1..Len(similar_pairs) : summary.minimum = similar_pairs[k][3]
             /\ \A k \in 1..Len(similar_pairs) : summary.minimum <= similar_pairs[k][3]
        ELSE summary = NoSummary

\* several pairs of different similarity, the largest not found first
C21_Witness ==
    /\ pc = "done"
    /\ Len(similar_pairs) >= 2
    /\ summary.maximum > summary.minimum
    /\ \E k \in 1..Len(compared) :
          /\ compared[k][3] = summary.maximum
          /\ \E m \in 1..(k - 1) :
                /\ Retained(compared[m][3], threshold)
                /\ compared[m][3] < summary.maximum

\* C22: the files the delete script lists are exactly the files of the second
\* question of the retained pairs of similarity >= 0.99 between different
\* files, so the file of the first question of a pair is not listed on account
\* of that pair; the script is written only when there is such a pair.
C22_DeleteScript ==
    pc = "done" =>
        LET first(k) == questions[similar_pairs[k][1] + 1]
            second(k) == questions[similar_pairs[k][2] + 1]
            exact == {k \in 1..Len(similar_pairs) :
                         /\ similar_pairs[k][3] >= FromRatio(99, 100)
                         /\ first(k).file # second(k).file}
        IN  /\ summary.delete_script.files_to_delete = {second(k).file : k \in exact}
            /\ summary.delete_script.written <=> (mode = "directory" /\ exact # {})
            /\ \A k \in exact :
                  first(k).file \in summary.delete_script.files_to_delete =>
                      \E m \in exact : second(m).file = first(k).file

\* a script that lists the second file of an exact pair and not the first, next
\* to a weaker pair between two files that adds nothing to it
C22_Witness ==
    /\ pc = "done"
    /\ mode = "directory"
    /\ summary.delete_script.written
    /\ \E k \in 1..Len(similar_pairs) :
          /\ similar_pairs[k][3] >= FromRatio(99, 100)
          /\ questions[similar_pairs[k][2] + 1].file \in summary.delete_script.files_to_delete
          /\ questions[similar_pairs[k][1] + 1].file \notin summary.delete_script.files_to_delete
    /\ \E k \in 1..Len(similar_pairs) :
          /\ similar_pairs[k][3] < FromRatio(99, 100)
          /\ questions[similar_pairs[k][1] + 1].file # questions[similar_pairs[k][2] + 1].file

\* a call of rename_xml_file without --force, with what it may do when the
\* search gives up once the first `tested` names (the plain name, then the
\* suffixes __1, __2, ...) are all taken
RenameContract(tested) ==
    (mode = "rename" /\ ~options.force /\ Len(log') = Len(log) + 1) =>
        LET entry == log'[Len(log')]
            Free(name) == name \notin used_names /\ name \notin DOMAIN disk
            renamed(e) == e.outcome \in {"changed", "dry_run"}
            found == /\ entry.file \in DOMAIN disk
                     /\ ~get_question_name_from_xml(disk[entry.file]).raised
                     /\ get_question_name_from_xml(disk[entry.file]).name # <<>>
            stem == sanitize_filename(get_question_name_from_xml(disk[entry.file]).name)
            all_taken == \A k \in 0..(tested - 1) : ~Free(Tried(stem, k))
        IN  /\ renamed(entry) =>
                  /\ found
                  /\ Free(entry.new_name)
                  /\ \E k \in 0..(tested - 1) :
                        /\ entry.new_name = Tried(stem, k)
                        /\ \A m \in 0..(k - 1) : ~Free(Tried(stem, m))
                  /\ \A m \in 1..Len(log) :
                        renamed(log[m]) => log[m].new_name # entry.new_name
            /\ entry.outcome = "changed" =>
                  /\ DOMAIN disk' = (DOMAIN disk \ {entry.file}) \cup {entry.new_name}
                  /\ disk'[entry.new_name] = disk[entry.file]
                  /\ \A name \in DOMAIN disk \ {entry.file} : disk'[name] = disk[name]
            /\ entry.outcome # "changed" => disk' = disk
            /\ (found /\ entry.file # Tried(stem, 0)) =>
                  (entry.outcome = "error" <=> all_taken)

\* C23 as stated: without --force no file is renamed onto an existing path, no
\* two files of a run receive the same new name, the first free name among the
\* plain name and the suffixes __1, __2, ... is used, and the search fails,
\* leaving the file where it is, once more than 1000 candidates collide.
C23_RenameCollisions == [][RenameContract(CollisionLimit + 1)]_vars

\* C23, amended: as above, but the search fails once 1000 candidates collide:
\* the plain name and the suffixes __1 to __999; the name with suffix __1000
\* is built and never tested.
C23_RenameCollisionsAmended == [][RenameContract(CollisionLimit)]_vars

\* a run that renamed two files to the same plain name, the second with __1
C23_Witness ==
    /\ mode = "rename"
    /\ pc = "done"
    /\ ~options.force
    /\ ~options.dry_run
    /\ \E a, b \in 1..Len(log) :
          /\ log[a].outcome = "changed"
          /\ log[b].outcome = "changed"
          /\ log[a].new_name = NameAbC
          /\ log[b].new_name = NameAbC1
          /\ {NameAbC, NameAbC1} \subseteq DOMAIN disk

\* the files that the lines of a run's output give a certain outcome
FilesWith(entries, outcome) ==
    {entries[k].file : k \in {n \in 1..Len(entries) : entries[n].outcome = outcome}}

\* C24: with --dry-run the rename, tag-removal, CDATA and code-block utilities
\* leave the file system as it is, for one file as for a directory, and the
\* files a dry run reports are exactly the files that the run without
\* --dry-run, on the same files with the same options, then modifies.
C24_DryRunFrame ==
    /\ [][(mode \in {"rename", "remove_tags", "ensure_cdata", "convert_code_blocks"}
            /\ options.dry_run) => disk' = disk]_vars
    /\ []((pc = "done" /\ preview.taken) =>
             FilesWith(preview.log, "dry_run") = FilesWith(log, "changed"))

\* C25: once QuestionAnalyzer.find_duplicates has run, at any threshold in
\* [0, 1], every two questions whose cleaned comparison text is the same and
\* holds a token longer than two characters are a pair of the duplicate list,
\* whatever the other questions of the corpus.
C25_AnalyzerIdenticalReported ==
    (mode = "analyzer" /\ pc = "done") =>
        \A a, b \in 1..Len(questions) :
            (a < b /\ questions[a].text = questions[b].text
                   /\ QualifyingTokens(questions[a].text) # {}) =>
                \E k \in 1..Len(similar_pairs) :
                    similar_pairs[k][1] = a - 1 /\ similar_pairs[k][2] = b - 1

\* C26: the comparison document QuestionAnalyzer keeps for a question is the
\* one the Document Assembler builds: the prompt, the answer texts, the
\* per-answer feedback texts and the general feedback, without the display
\* name; two questions that differ only in their name have the same document.
C26_AnalyzerDocument ==
    mode = "analyzer" =>
        /\ \A k \in 1..Len(questions) :
              clean_text(questions[k].full_text)
                  = clean_text(get_question_full_text(questions[k].info))
        /\ \A a, b \in 1..Len(questions) :
              [questions[a].info EXCEPT !.name = <<>>]
                    = [questions[b].info EXCEPT !.name = <<>>]
                  => questions[a].full_text = questions[b].full_text

\* C27: every file the delete script lists for removal has a question that is
\* an exact duplicate (similarity >= 0.99) of a question of a file the script
\* does not list: running the script never removes every copy of a question.
C27_DeleteKeepsACopy ==
    (mode = "directory" /\ pc = "done" /\ summary.delete_script.written) =>
        \A removed \in summary.delete_script.files_to_delete :
            \E k \in 1..Len(compared) :
                LET q1 == questions[compared[k][1] + 1]
                    q2 == questions[compared[k][2] + 1]
                IN  /\ ExactDuplicate(compared[k][3])
                    /\ removed \in {q1.file, q2.file}
                    /\ {q1.file, q2.file} \ summary.delete_script.files_to_delete # {}

\* C28: in directory mode a file whose loading raises adds no question, not
\* even those that precede the error, and does not end the run: the corpus is
\* the questions of the other files in file order, all of them are compared,
\* and the pairs returned are those of that combined list, by position.
C28_ErrorIsolation ==
    mode = "directory" =>
        /\ questions = LoadedFrom(source, 1)
        /\ pc = "error" => ~ThresholdInRange(threshold)
        /\ pc \in {"load", "idf", "vectors"} => Len(compared) = 0
        /\ LoopFinished /\ pc # "report" =>
              {PairOf(compared[k]) : k \in 1..Len(compared)} = IndexPairs(Len(questions))
        /\ pc = "done" =>
              /\ Len(source) = xml_files
              /\ similar_pairs = FindSimilar(Texts(LoadedFrom(source, 1)), threshold, hashSeed)

\* a directory whose first file breaks off after a question and whose second
\* file holds two questions, which are returned as the pair (0, 1)
C28_Witness ==
    /\ mode = "directory"
    /\ pc = "done"
    /\ Len(source) = 2
    /\ source[1].status = "parse_error"
    /\ source[1].elems # <<>>
    /\ source[2].status = "ok"
    /\ Len(questions) = 2
    /\ Len(similar_pairs) = 1
    /\ PairOf(similar_pairs[1]) = <<0, 1>>

\* C29: after any sequence of analyze_file calls every analysed file is
\* counted as valid or as invalid and never as both, also when an exception
\* is raised after the file was accepted: total_files = valid_files +
\* invalid_files.
C29_FileCounters ==
    mode = "analyzer" =>
        /\ stats.total_files = Len(source)
        /\ stats.total_files = stats.valid_files + stats.invalid_files

\* C30: clean_text returns a text that clean_text leaves as it is: for every
\* text x read from a file, clean_text(clean_text(x)) = clean_text(x), with
\* the same tokens and, under the table of the run, the same vector.
C30_CleanTextIdempotent ==
    /\ \A f \in 1..Len(source) : \A e \in 1..Len(source[f].elems) :
          LET x == get_question_full_text(source[f].elems[e])
          IN  clean_text(clean_text(x)) = clean_text(x)
    /\ \A k \in 1..Len(questions) :
          LET y == questions[k].text
          IN  /\ clean_text(y) = y
              /\ Split(clean_text(y)) = Split(y)
              /\ compute_tfidf_vector(clean_text(y), compute_idf(Texts(questions)))
                    = compute_tfidf_vector(y, compute_idf(Texts(questions)))

\* a text was loaded that cleaning changed: a capital letter was lowered and a
\* removed character between two kept ones became the only space
C30_Witness ==
    /\ pc = "idf"
    /\ Len(questions) = 1
    /\ questions[1].full_text = <<"B", "?", "a">>
    /\ questions[1].text = <<"b", " ", "a">>
    /\ clean_text(questions[1].text) = questions[1].text

====
